---------------------------- MODULE Spec2Model ----------------------------
(***************************************************************************)
(* Model of the language-pack decoder (rust_playground): the Blob with its *)
(* cursor, region tags and string diagnostics (blob.rs), the character     *)
(* decoder, the schema-versioned index readers and Language::from.         *)
(*                                                                         *)
(* Byte offsets are the program's (0-based); data[i + 1] is the byte at    *)
(* offset i.  A Rust String is modelled as its sequence of Unicode code    *)
(* points.  A panic is the variable panic becoming a non-empty message:    *)
(* the process has aborted and no operation runs after it.                 *)
(***************************************************************************)
EXTENDS Integers, Sequences, FiniteSets, TLC

VARIABLES
    data,            \* _Blob.data: the bytes of the file
    overflow_checks, \* the build: TRUE panics on integer overflow, FALSE wraps
    is_utf8,         \* _Blob.maps.is_utf8
    regions,         \* Stats.regions: one BlobRegions tag per byte
    string_offsets,  \* Stats.string_offsets: text -> <<first offset, count>>
    pos,             \* FileBlob.pos
    panic,           \* "" or the message of the panic that aborted the process
    pc,              \* control point of the running program
    hdr,             \* values Language::from has read from the header so far
    lang,            \* the index tables Language::from has built so far
    out,             \* what the dump loops of Language::from have printed
    last,            \* the last operation applied, its arguments and its result
    prev             \* regions and string_offsets as they were before it

vars == <<data, overflow_checks, is_utf8, regions, string_offsets, pos, panic, pc, hdr, lang, out, last, prev>>

-----------------------------------------------------------------------------
(* Integer helpers: Rust's u8/u16/u32 operators on naturals.                *)

RECURSIVE BitAnd(_, _)
BitAnd(a, b) ==
    IF a = 0 \/ b = 0 THEN 0
    ELSE (IF a % 2 = 1 /\ b % 2 = 1 THEN 1 ELSE 0) + 2 * BitAnd(a \div 2, b \div 2)

RECURSIVE BitOr(_, _)
BitOr(a, b) ==
    IF a = 0 THEN b
    ELSE IF b = 0 THEN a
    ELSE (IF a % 2 = 1 \/ b % 2 = 1 THEN 1 ELSE 0) + 2 * BitOr(a \div 2, b \div 2)

Shl(a, n) == a * (2 ^ n)

Shr(a, n) == a \div (2 ^ n)

Min(S) == CHOOSE x \in S : \A y \in S : x <= y

Max(S) == CHOOSE x \in S : \A y \in S : x >= y

FileLen == Len(data)

-----------------------------------------------------------------------------
(* conversion.rs                                                            *)

(* A u32 is held as the 32-bit two's-complement integer with the same bits *)
(* (TLC's integers are 32 bits wide): v itself below 2^31 and       *)
(* v - 2^32 from there on.  The encoding is one to one, zero is zero, and   *)
(* "v > 0" on the u32 reads "v # 0" here.                                   *)
little_endian_4_bytes(b) ==
    BitOr(BitOr(b[1], Shl(b[2], 8)), Shl(b[3], 16))
        + (IF b[4] < 128 THEN b[4] ELSE b[4] - 256) * (2 ^ 24)

(* "v as usize" for a position or offset: exact below 2^31; a larger value  *)
(* becomes a position beyond every file the model holds, where each read    *)
(* fails the same way.                                                      *)
U32Pos(v) == IF v < 0 THEN 2 ^ 30 ELSE v

little_endian_3_bytes(b) == BitOr(BitOr(b[1], Shl(b[2], 8)), Shl(b[3], 16))

(* The two bytes taken high byte first.                                     *)
little_endian_2_bytes_high_first(b) == BitOr(b[2], Shl(b[1], 8))

little_endian_2_bytes(b) == BitOr(b[1], Shl(b[2], 8))

-----------------------------------------------------------------------------
(* blob.rs: the region tags.                                                *)

BlobRegions ==
    {"Empty", "Header", "Units", "Products", "Parameters", "Menus", "Modes",
     "Enumerations", "Mnemonics", "KeypadStrs", "Text", "Invalid"}

(* The mutable part of a FileBlob / RawBlob pair, threaded through the      *)
(* readers: cursor, diagnostics, and the panic that ended the run (if any). *)
BlobState == [pos |-> pos, regions |-> regions, string_offsets |-> string_offsets,
              panic |-> panic]

Panic(b, msg) == IF b.panic # "" THEN b ELSE [b EXCEPT !.panic = msg]

(* _Blob::add_region: tags start..end-1 in order; an Empty byte takes the   *)
(* tag, a byte with the same tag is left alone, any other tag panics there  *)
(* (the bytes before it keep what the loop already wrote).  regions[i]      *)
(* beyond the file is an index panic.                                       *)
FirstStop_any_tagged(rg, start, end, type) ==
    LET bad == {i \in start..(end - 1) :
                   \/ i >= Len(rg)
                   \/ rg[i + 1] # "Empty"}
    IN IF bad = {} THEN end ELSE Min(bad)

FirstStop(rg, start, end, type) ==
    LET bad == {i \in start..(end - 1) :
                   \/ i >= Len(rg)
                   \/ rg[i + 1] \notin {"Empty", type}}
    IN IF bad = {} THEN end ELSE Min(bad)

add_region_skip_check(b, start, end, type) ==
    IF b.panic # "" THEN b
    ELSE [b EXCEPT !.regions =
            [i \in 1..Len(b.regions) |->
                IF i - 1 >= start /\ i - 1 < end THEN type ELSE b.regions[i]]]

add_region(b, start, end, type) ==
    IF b.panic # "" THEN b
    ELSE LET stop == FirstStop(b.regions, start, end, type)
             tagged == [b EXCEPT !.regions =
                          [i \in 1..Len(b.regions) |->
                              IF i - 1 >= start /\ i - 1 < stop /\ b.regions[i] = "Empty"
                              THEN type ELSE b.regions[i]]]
         IN IF stop = end THEN tagged
            ELSE IF stop >= Len(b.regions)
                 THEN Panic(tagged, "index out of bounds")
                 ELSE Panic(tagged, "Region type mismatch")

(* FileBlob::read_exact: copies to_read bytes from pos (an index panic when *)
(* the file ends first, before anything is changed), advances pos, then     *)
(* tags the range.  Returns the new blob state and the bytes.               *)
read_exact(b, to_read, region) ==
    IF b.panic # "" THEN [b |-> b, buf |-> [i \in 1..to_read |-> 0]]
    ELSE IF b.pos + to_read > FileLen
         THEN [b |-> Panic(b, "index out of bounds"), buf |-> [i \in 1..to_read |-> 0]]
         ELSE [b |-> add_region([b EXCEPT !.pos = b.pos + to_read],
                                b.pos, b.pos + to_read, region),
               buf |-> [i \in 1..to_read |-> data[b.pos + i]]]

read_le_4bytes(b, region) ==
    LET r == read_exact(b, 4, region) IN [b |-> r.b, v |-> little_endian_4_bytes(r.buf)]

read_le_3bytes(b, region) ==
    LET r == read_exact(b, 3, region) IN [b |-> r.b, v |-> little_endian_3_bytes(r.buf)]

read_le_2bytes(b, region) ==
    LET r == read_exact(b, 2, region) IN [b |-> r.b, v |-> little_endian_2_bytes(r.buf)]

read_byte(b, region) ==
    LET r == read_exact(b, 1, region) IN [b |-> r.b, v |-> r.buf[1]]

set_pos(b, p) == IF b.panic # "" THEN b ELSE [b EXCEPT !.pos = U32Pos(p)]

-----------------------------------------------------------------------------
(* characters.rs: the character maps.  Their contents come from the XML     *)
(* character-map file; the tables below are the ones this model runs with:  *)
(* a 1-byte map holding printable ASCII and one glyph-less code (1), and a  *)
(* 2-byte map holding the codes 0..Chars2Top.  Any other code is missing.   *)

Chars2Top == 511

Chars1 == [c \in (32..126) \cup {1} |-> IF c = 1 THEN <<>> ELSE <<c>>]

Chars2 == [c \in 0..Chars2Top |-> <<19968 + c>>]

CodepageMaps ==
    << [id |-> 1, bytes_per |-> 1, chars |-> Chars1],
       [id |-> 2, bytes_per |-> 2, chars |-> Chars2] >>

(* CharacterMap::get_unicode: panics when the code is not in the map.       *)
get_unicode(map, ch) ==
    IF ch \in DOMAIN map.chars
    THEN [panic |-> FALSE, val |-> map.chars[ch]]
    ELSE [panic |-> TRUE, val |-> <<>>]

(* CharacterMaps::decode_2bytes / decode_byte: the first map of the right   *)
(* width answers; no such map is a panic.                                   *)
decode_with(maps, width, ch) ==
    LET hits == {k \in 1..Len(maps) : maps[k].bytes_per = width}
    IN IF hits = {} THEN [panic |-> TRUE, val |-> <<>>]
       ELSE get_unicode(maps[Min(hits)], ch)

decode_2bytes(ch) == decode_with(CodepageMaps, 2, ch)

decode_byte(ch) == decode_with(CodepageMaps, 1, ch)

-----------------------------------------------------------------------------
(* String::from_utf8 as used by bytes_to_string: the code points of a valid *)
(* UTF-8 byte sequence, or invalid.                                         *)

IsCont(b) == b >= 128 /\ b <= 191

RECURSIVE Utf8From(_, _, _)
Utf8From(bytes, i, acc) ==
    IF i > Len(bytes) THEN [ok |-> TRUE, val |-> acc]
    ELSE LET b0 == bytes[i]
             has(k) == i + k <= Len(bytes)
             b1 == bytes[i + 1]
             b2 == bytes[i + 2]
             b3 == bytes[i + 3]
             bad == [ok |-> FALSE, val |-> <<>>]
         IN IF b0 < 128 THEN Utf8From(bytes, i + 1, Append(acc, b0))
            ELSE IF b0 >= 194 /\ b0 <= 223
            THEN IF has(1) /\ IsCont(b1)
                 THEN Utf8From(bytes, i + 2, Append(acc, (b0 - 192) * 64 + (b1 - 128)))
                 ELSE bad
            ELSE IF b0 >= 224 /\ b0 <= 239
            THEN IF /\ has(2) /\ IsCont(b1) /\ IsCont(b2)
                    /\ (b0 = 224 => b1 >= 160)
                    /\ (b0 = 237 => b1 <= 159)
                 THEN Utf8From(bytes, i + 3,
                        Append(acc, (b0 - 224) * 4096 + (b1 - 128) * 64 + (b2 - 128)))
                 ELSE bad
            ELSE IF b0 >= 240 /\ b0 <= 244
            THEN IF /\ has(3) /\ IsCont(b1) /\ IsCont(b2) /\ IsCont(b3)
                    /\ (b0 = 240 => b1 >= 144)
                    /\ (b0 = 244 => b1 <= 143)
                 THEN Utf8From(bytes, i + 4,
                        Append(acc, (b0 - 240) * 262144 + (b1 - 128) * 4096
                                    + (b2 - 128) * 64 + (b3 - 128)))
                 ELSE bad
            ELSE bad

from_utf8(bytes) == Utf8From(bytes, 1, <<>>)

-----------------------------------------------------------------------------
(* RawBlob::bytes_to_string.  The codepage loop, one iteration per call of  *)
(* CodepageFrom; i is the loop's 0-based index.  steps records, for each    *)
(* iteration, where it started (at), where it left i (next), which table it *)
(* looked up (0: none) and under which code.                                *)

Step(at, next, table, code) == [at |-> at, next |-> next, table |-> table, code |-> code]

(* The pair test of line 214, its code of line 218, and the test for a     *)
(* dangling lead byte of lines 219 and 227.                                 *)
IsPair_low_bit_ignored(ch1, ch2) == BitAnd(ch2, 192) = 192

IsPair(ch1, ch2) == BitAnd(ch2, 192) = 192 /\ BitAnd(ch1, 1) = 1

PairCode_shift8(ch1, ch2) == BitOr(Shl(BitAnd(ch2, 65535 - 192), 8), Shr(ch1, 1))

PairCode(ch1, ch2) == BitOr(Shl(BitAnd(ch2, 65535 - 192), 7), Shr(ch1, 1))

IsLead_never(ch1) == FALSE

IsLead(ch1) == BitAnd(ch1, 192) = 192

RECURSIVE CodepageFrom(_, _, _, _)
CodepageFrom(bytes, i, result, steps) ==
    IF ~(i < Len(bytes)) THEN [kind |-> "Ok", val |-> result, steps |-> steps]
    ELSE LET ch1 == bytes[i + 1]
             i1 == i + 1
             ch2 == bytes[i1 + 1]
             pair == i1 < Len(bytes) /\ IsPair(ch1, ch2)
             code == PairCode(ch1, ch2)
         IN IF pair
            THEN LET u == decode_2bytes(code)
                     st == Append(steps, Step(i, i1 + 1, 2, code))
                 IN IF u.panic THEN [kind |-> "Panic", val |-> result, steps |-> st]
                    ELSE CodepageFrom(bytes, i1 + 1, result \o u.val, st)
            ELSE IF IsLead(ch1)
            THEN [kind |-> "Err", val |-> result,
                  steps |-> Append(steps, Step(i, i1, 0, ch1))]
            ELSE LET u == decode_byte(ch1)
                     st == Append(steps, Step(i, i1, 1, ch1))
                 IN IF u.panic THEN [kind |-> "Panic", val |-> result, steps |-> st]
                    ELSE CodepageFrom(bytes, i1, result \o u.val, st)

bytes_to_string(utf8, bytes) ==
    IF utf8
    THEN LET r == from_utf8(bytes)
         IN IF r.ok THEN [kind |-> "Ok", val |-> r.val, steps |-> <<>>]
            ELSE [kind |-> "Err", val |-> <<>>, steps |-> <<>>]
    ELSE CodepageFrom(bytes, 0, <<>>, <<>>)

-----------------------------------------------------------------------------
(* blob.rs: string resolution.                                              *)

(* "[-- no string --]" and "[-- empty string --]" as code points.           *)
NoString == <<91, 45, 45, 32, 110, 111, 32, 115, 116, 114, 105, 110, 103, 32, 45, 45, 93>>

EmptyString ==
    <<91, 45, 45, 32, 101, 109, 112, 116, 121, 32, 115, 116, 114, 105, 110, 103, 32, 45, 45, 93>>

(* The while loop of RawBlob::get_bytes: i runs from off towards end, stops *)
(* after the first zero byte; buf[i] beyond the file is an index panic.     *)
RECURSIVE ScanBytes(_, _, _)
ScanBytes_reads_one_more(i, end, bytes) ==
    IF ~(i <= end) THEN [i |-> i, bytes |-> bytes, oob |-> FALSE]
    ELSE IF i >= FileLen THEN [i |-> i, bytes |-> bytes, oob |-> TRUE]
    ELSE IF data[i + 1] = 0 THEN [i |-> i + 1, bytes |-> bytes, oob |-> FALSE]
    ELSE ScanBytes(i + 1, end, Append(bytes, data[i + 1]))

ScanBytes_stops_at_end(i, end, bytes) ==
    IF ~(i < end) \/ i >= FileLen THEN [i |-> i, bytes |-> bytes, oob |-> FALSE]
    ELSE IF data[i + 1] = 0 THEN [i |-> i + 1, bytes |-> bytes, oob |-> FALSE]
    ELSE ScanBytes(i + 1, end, Append(bytes, data[i + 1]))

ScanBytes(i, end, bytes) ==
    IF ~(i < end) THEN [i |-> i, bytes |-> bytes, oob |-> FALSE]
    ELSE IF i >= FileLen THEN [i |-> i, bytes |-> bytes, oob |-> TRUE]
    ELSE IF data[i + 1] = 0 THEN [i |-> i + 1, bytes |-> bytes, oob |-> FALSE]
    ELSE ScanBytes(i + 1, end, Append(bytes, data[i + 1]))

(* RawBlob::get_bytes: the scan, then the scanned span is tagged Text.      *)
get_bytes(b, off, max_length) ==
    LET start == U32Pos(off)
        sc == ScanBytes(start, start + max_length, <<>>)
    IN IF sc.oob
       THEN [b |-> Panic(b, "index out of bounds"), bytes |-> sc.bytes, i |-> sc.i]
       ELSE [b |-> add_region(b, start, sc.i, "Text"), bytes |-> sc.bytes, i |-> sc.i]

(* add_string counting occurrences instead of bytes.                         *)
add_string_counts_one(b, string, off, size) ==
    IF b.panic # "" THEN b
    ELSE LET so == b.string_offsets
         IN IF string \in DOMAIN so
            THEN IF so[string][1] # off
                 THEN [b EXCEPT !.string_offsets =
                         [so EXCEPT ![string] = <<so[string][1], so[string][2] + 1>>]]
                 ELSE b
            ELSE [b EXCEPT !.string_offsets =
                    [t \in DOMAIN so \cup {string} |->
                        IF t = string THEN <<off, 0>> ELSE so[t]]]

(* _Blob::add_string: the first offset of a text is kept; a later different *)
(* offset adds its size to the count.                                       *)
add_string(b, string, off, size) ==
    IF b.panic # "" THEN b
    ELSE LET so == b.string_offsets
         IN IF string \in DOMAIN so
            THEN IF so[string][1] # off
                 THEN [b EXCEPT !.string_offsets =
                         [so EXCEPT ![string] = <<so[string][1], so[string][2] + size>>]]
                 ELSE b
            ELSE [b EXCEPT !.string_offsets =
                    [t \in DOMAIN so \cup {string} |->
                        IF t = string THEN <<off, 0>> ELSE so[t]]]

(* RawBlob::get_string.  ret.kind is "Ok", "Err" or "Panic" (no return).    *)
(* called: whether bytes_to_string ran; bytes, i: what get_bytes produced.  *)
GsRet(b, kind, val, bytes, i, called) ==
    [b |-> b, kind |-> kind, val |-> val, bytes |-> bytes, i |-> i, called |-> called]

get_string_scans_offset_0(b, off, max_length) ==
    LET gb == get_bytes(b, off, max_length)
    IN GsRet(gb.b, IF gb.b.panic # "" THEN "Panic" ELSE "Ok", NoString, gb.bytes, gb.i, FALSE)

get_string_no_empty_sentinel(b, off, max_length) ==
    IF off = 0 THEN GsRet(b, "Ok", NoString, <<>>, 0, FALSE)
    ELSE LET gb == get_bytes(b, off, max_length)
             result == bytes_to_string(is_utf8, gb.bytes)
         IN IF gb.b.panic # "" THEN GsRet(gb.b, "Panic", <<>>, gb.bytes, gb.i, FALSE)
            ELSE GsRet(add_string(gb.b, result.val, off, Len(gb.bytes)), result.kind,
                       result.val, gb.bytes, gb.i, TRUE)

get_string(b, off, max_length) ==
    IF off = 0 THEN GsRet(b, "Ok", NoString, <<>>, 0, FALSE)
    ELSE LET gb == get_bytes(b, off, max_length)
             len == Len(gb.bytes)
         IN IF gb.b.panic # "" THEN GsRet(gb.b, "Panic", <<>>, gb.bytes, gb.i, FALSE)
            ELSE IF len = 0
            THEN GsRet(add_string(gb.b, <<>>, off, 1), "Ok", EmptyString, gb.bytes, gb.i, FALSE)
            ELSE LET result == bytes_to_string(is_utf8, gb.bytes)
                 IN IF result.kind = "Ok"
                    THEN GsRet(add_string(gb.b, result.val, off, len), "Ok", result.val,
                               gb.bytes, gb.i, TRUE)
                    ELSE IF result.kind = "Err"
                    THEN GsRet(gb.b, "Err", result.val, gb.bytes, gb.i, TRUE)
                    ELSE GsRet(Panic(gb.b, "Failed to find character in map"), "Panic",
                               <<>>, gb.bytes, gb.i, TRUE)

-----------------------------------------------------------------------------
(* The index tables.  A HashMap is a function from its keys; insert         *)
(* replaces the entry of a key already present and hands the old one back.  *)

EmptyIndex == <<>>

MapInsert(m, k, v) == [x \in DOMAIN m \cup {k} |-> IF x = k THEN v ELSE m[x]]

MapRemove(m, k) == [x \in DOMAIN m \ {k} |-> m[x]]

(* The result of a reader: the blob after it and the table it built.       *)
Res(b, idx) == [b |-> b, idx |-> idx]

(* What the duplicate scan of an Index::new compares: the named fields of  *)
(* an entry.                                                                *)
EntryId(e, fields) == [i \in 1..Len(fields) |-> e[fields[i]]]

(* The duplicate scan of every Index::new (products.rs 37-63 and its        *)
(* copies), applied to what a reader built: it walks the entries of the     *)
(* finished map and panics when it meets the identity of an entry a second  *)
(* time.                                                                    *)
Index_new(r, fields, msg) ==
    IF /\ r.b.panic = ""
       /\ \E k1, k2 \in DOMAIN r.idx :
             k1 # k2 /\ EntryId(r.idx[k1], fields) = EntryId(r.idx[k2], fields)
    THEN Res(Panic(r.b, msg), r.idx)
    ELSE r

(* keys.sort() of every into_iter.                                          *)
RECURSIVE SortKeys(_)
SortKeys(S) == IF S = {} THEN <<>> ELSE <<Min(S)>> \o SortKeys(S \ {Min(S)})

Reverse(q) == [k \in 1..Len(q) |-> q[Len(q) + 1 - k]]

(* into_iter of every index (products.rs 191-203 and its seven copies):     *)
(* the keys sorted, reversed, and collected with their entries into items.  *)
IntoIter_no_reverse(m) == SortKeys(DOMAIN m)

IntoIter(m) == Reverse(SortKeys(DOMAIN m))

(* Iterator::next of every index iterator: items.pop(), the last item.      *)
IterNext(items) ==
    IF items = <<>> THEN [some |-> FALSE, key |-> 0, items |-> items]
    ELSE [some |-> TRUE, key |-> items[Len(items)], items |-> SubSeq(items, 1, Len(items) - 1)]

(* The keys in the order a for loop over the index visits them.             *)
RECURSIVE Drain(_)
Drain(items) ==
    IF items = <<>> THEN <<>>
    ELSE LET nx == IterNext(items) IN <<nx.key>> \o Drain(nx.items)

IterOrder(m) == Drain(IntoIter(m))

-----------------------------------------------------------------------------
(* Sequencing.  Only({e : r \in {x}}) is e with r standing for the value of *)
(* x: the result of one call, named once and used as often as needed.       *)

Only(S) == CHOOSE y \in S : TRUE

Zeros(n) == [k \in 1..n |-> 0]

read_le(b, n, region) ==
    CASE n = 1 -> read_byte(b, region)
      [] n = 2 -> read_le_2bytes(b, region)
      [] n = 3 -> read_le_3bytes(b, region)
      [] OTHER -> read_le_4bytes(b, region)

(* Consecutive cursor reads of the given widths under one region label: the *)
(* blob after them and the values in order.                                 *)
RECURSIVE read_fields(_, _, _)
read_fields(b, widths, region) ==
    IF widths = <<>> THEN [b |-> b, v |-> <<>>]
    ELSE Only({Only({[b |-> rest.b, v |-> <<r.v>> \o rest.v] :
                        rest \in {read_fields(r.b, Tail(widths), region)}}) :
                  r \in {read_le(b, Head(widths), region)}})

-----------------------------------------------------------------------------
(* mnemonics.rs                                                             *)

(* The key of MnemonicIndexEntry::load (lines 133-137) from the u32 read,   *)
(* in the encoding of little_endian_4_bytes: "value > 0x7FFFFFF" holds for  *)
(* an encoded value below 0 or above 134217727; 0xFFFFFFFF - value cast to  *)
(* i32 is -1 - value in both cases, and the key is its negation.  For       *)
(* value = 0x7FFFFFFF the negated operand is i32::MIN: an overflow panic    *)
(* in a build with overflow checks, and i32::MIN again in one without.      *)
MnemonicKeyLimit == 134217727

(* The key as the two's-complement reading of the u32: the encoded value    *)
(* itself.                                                                  *)
MnemonicKey_twos_complement(value) == [overflow |-> FALSE, key |-> value]

MnemonicKey(value) ==
    IF value < 0 \/ value > MnemonicKeyLimit
    THEN IF value = 2147483647
         THEN [overflow |-> overflow_checks, key |-> -2147483647 - 1]
         ELSE [overflow |-> FALSE, key |-> value + 1]
    ELSE [overflow |-> FALSE, key |-> value]

MnemonicEntryLen == 5

(* The loop of MnemonicIndex::from over MnemonicIndexEntry::load: value,    *)
(* caption and tooltip offsets; a value met twice is a panic.               *)
RECURSIVE MnemonicLoad(_, _, _)
MnemonicLoad(b, left, values) ==
    IF left = 0 \/ b.panic # "" THEN Res(b, values)
    ELSE Only({
        LET k == MnemonicKey(r.v[1])
        IN IF r.b.panic # "" THEN Res(r.b, values)
           ELSE IF k.overflow THEN Res(Panic(r.b, "attempt to negate with overflow"), values)
           ELSE IF k.key \in DOMAIN values
           THEN Res(Panic(r.b, "Two entries with same mnemonic!"), values)
           ELSE MnemonicLoad(r.b, left - 1,
                    MapInsert(values, k.key,
                              [value |-> k.key, caption_off |-> r.v[2], tooltip_off |-> r.v[3]]))
        : r \in {read_fields(b, <<4, 3, 3>>, "Mnemonics")}})

(* MnemonicIndex::from: num_entries, idx_entry_len, then the records.       *)
MnemonicIndex_from(b) ==
    Only({
        IF h.b.panic # "" THEN Res(h.b, EmptyIndex)
        ELSE IF h.v[2] # 0
        THEN IF h.v[2] # MnemonicEntryLen
             THEN Res(Panic(h.b, "V4 MnemonicIndexEntry wrong size"), EmptyIndex)
             ELSE MnemonicLoad(h.b, h.v[1], EmptyIndex)
        ELSE Res(h.b, EmptyIndex)
        : h \in {read_fields(b, <<2, 1>>, "Mnemonics")}})

-----------------------------------------------------------------------------
(* parameters.rs                                                            *)

(* ParameterIndex::validate_schema: "" or the panic message.                *)
ParameterIndex_validate_schema(schema, idx_entry_len, max_str_len) ==
    LET want == CASE schema = 2 -> 6 [] schema = 3 -> 5 [] schema = 4 -> 5 [] OTHER -> 0
        req_str_len == IF schema = 4 THEN 256 ELSE 32
    IN IF schema \notin {2, 3, 4} THEN "Invalid format"
       ELSE IF idx_entry_len # want THEN "ParamIndexEntry wrong size"
       ELSE IF max_str_len # req_str_len THEN "Incorrect string len"
       ELSE ""

(* The offsets of parameter 255 handed out with the entry left in place.    *)
check_param255_keeps_entry(params) ==
    IF 255 \in DOMAIN params
    THEN [params |-> params,
          caption_off |-> params[255].caption_off, tooltip_off |-> params[255].tooltip_off]
    ELSE [params |-> params, caption_off |-> 0, tooltip_off |-> 0]

(* ParameterIndex::check_param255                                           *)
check_param255(params) ==
    IF 255 \in DOMAIN params
    THEN [params |-> MapRemove(params, 255),
          caption_off |-> params[255].caption_off, tooltip_off |-> params[255].tooltip_off]
    ELSE [params |-> params, caption_off |-> 0, tooltip_off |-> 0]

ParameterEntry(param, caption_off, tooltip_off, mnemonic) ==
    [param_num |-> param, caption_off |-> caption_off, tooltip_off |-> tooltip_off,
     mnemonic |-> mnemonic]

(* The loop of from_v3 over ParameterIndexEntry::load_v3: the parameter     *)
(* number (above 255 a panic, before the offset is read), the offset.       *)
RECURSIVE ParameterLoadV3(_, _, _)
ParameterLoadV3(b, left, params) ==
    IF left = 0 \/ b.panic # "" THEN Res(b, params)
    ELSE Only({
        IF r1.b.panic # "" THEN Res(r1.b, params)
        ELSE IF r1.v > 255 THEN Res(Panic(r1.b, "Out of range param"), params)
        ELSE Only({
            IF r2.b.panic # "" THEN Res(r2.b, params)
            ELSE ParameterLoadV3(r2.b, left - 1,
                    MapInsert(params, r1.v, ParameterEntry(r1.v, r2.v, 0, EmptyIndex)))
            : r2 \in {read_le_3bytes(r1.b, "Parameters")}})
        : r1 \in {read_le_2bytes(b, "Parameters")}})

NoParams(b) == [b |-> b, idx |-> EmptyIndex, caption_off |-> 0, tooltip_off |-> 0]

(* ParameterIndex::from_v3: num_entries, max_str_len, font_family,          *)
(* idx_entry_len, then the records; the index, and the caption and tooltip  *)
(* offsets of parameter 255.                                                *)
ParameterIndex_from_v3(b, root_font_family) ==
    Only({
        LET bad == ParameterIndex_validate_schema(3, h.v[4], h.v[2])
        IN IF h.b.panic # "" THEN NoParams(h.b)
           ELSE IF root_font_family # h.v[3] THEN NoParams(Panic(h.b, "Mis-match font_family"))
           ELSE IF h.v[4] = 0 THEN NoParams(h.b)
           ELSE IF bad # "" THEN NoParams(Panic(h.b, bad))
           ELSE Only({
               IF ld.b.panic # "" THEN NoParams(ld.b)
               ELSE Only({[b |-> ld.b, idx |-> c.params, caption_off |-> c.caption_off,
                           tooltip_off |-> c.tooltip_off] : c \in {check_param255(ld.idx)}})
               : ld \in {ParameterLoadV3(h.b, h.v[1], EmptyIndex)}})
        : h \in {read_fields(b, <<2, 2, 1, 1>>, "Parameters")}})

(* ParameterIndex::read_v4_entries: the parameter number is read as         *)
(* Parameters, the three offsets as Menus; the records with a caption, in   *)
(* order.                                                                   *)
RECURSIVE ParameterReadV4(_, _, _)
ParameterReadV4(b, left, tmp_info) ==
    IF left = 0 \/ b.panic # "" THEN [b |-> b, tmp_info |-> tmp_info]
    ELSE Only({Only({
            IF r2.b.panic # "" THEN [b |-> r2.b, tmp_info |-> tmp_info]
            ELSE ParameterReadV4(r2.b, left - 1,
                    IF r2.v[1] > 0 THEN Append(tmp_info, <<r1.v, r2.v[1], r2.v[2], r2.v[3]>>)
                    ELSE tmp_info)
            : r2 \in {read_fields(r1.b, <<3, 3, 3>>, "Menus")}})
        : r1 \in {read_byte(b, "Parameters")}})

(* The loop of from_v4 over tmp_info: the nested mnemonic tables.           *)
RECURSIVE ParameterBuildV4(_, _, _)
ParameterBuildV4(b, tmp_info, params) ==
    IF tmp_info = <<>> \/ b.panic # "" THEN Res(b, params)
    ELSE Only({
        IF mn.b.panic # "" THEN Res(mn.b, params)
        ELSE ParameterBuildV4(mn.b, Tail(tmp_info),
                MapInsert(params, Head(tmp_info)[1],
                          ParameterEntry(Head(tmp_info)[1], Head(tmp_info)[2],
                                         Head(tmp_info)[3], mn.idx)))
        : mn \in {IF Head(tmp_info)[4] > 0
                  THEN MnemonicIndex_from(set_pos(b, Head(tmp_info)[4]))
                  ELSE Res(b, EmptyIndex)}})

(* ParameterIndex::from_v4: num_params, idx_entry_len, then the records.    *)
ParameterIndex_from_v4(b) ==
    Only({
        LET bad == ParameterIndex_validate_schema(4, h.v[2], 256)
        IN IF h.b.panic # "" THEN Res(h.b, EmptyIndex)
           ELSE IF h.v[2] = 0 THEN Res(h.b, EmptyIndex)
           ELSE IF bad # "" THEN Res(Panic(h.b, bad), EmptyIndex)
           ELSE Only({Index_new(ParameterBuildV4(rd.b, rd.tmp_info, EmptyIndex),
                                <<"param_num">>, "Duplicate parameter number found") :
                         rd \in {ParameterReadV4(h.b, h.v[1], <<>>)}})
        : h \in {read_fields(b, <<1, 1>>, "Parameters")}})

(* ParameterIndex::read_v2_entries over ParameterIndexEntry::load_v2        *)
(* (param, menu, offset): one parameter index per menu number.              *)
RECURSIVE ParameterReadV2(_, _, _)
ParameterReadV2(b, left, tmp_menus) ==
    IF left = 0 \/ b.panic # "" THEN [b |-> b, tmp_menus |-> tmp_menus]
    ELSE Only({
        LET old == IF r.v[2] \in DOMAIN tmp_menus THEN tmp_menus[r.v[2]] ELSE EmptyIndex
        IN IF r.b.panic # "" THEN [b |-> r.b, tmp_menus |-> tmp_menus]
           ELSE ParameterReadV2(r.b, left - 1,
                   MapInsert(tmp_menus, r.v[2],
                             MapInsert(old, r.v[1], ParameterEntry(r.v[1], r.v[3], 0, EmptyIndex))))
        : r \in {read_fields(b, <<1, 1, 4>>, "Parameters")}})

-----------------------------------------------------------------------------
(* menus.rs                                                                 *)

MenuEntry(menu_num, caption_off, tooltip_off, param_index) ==
    [menu_num |-> menu_num, caption_off |-> caption_off, tooltip_off |-> tooltip_off,
     param_index |-> param_index]

(* MenuIndex::validate_schema: "" or the panic message.                     *)
MenuIndex_validate_schema(schema, idx_entry_len) ==
    LET want == CASE schema = 2 -> 6 [] schema = 3 -> 3 [] schema = 4 -> 9 [] OTHER -> 0
    IN IF schema \notin {2, 3, 4} THEN "Invalid format"
       ELSE IF idx_entry_len # want THEN "MenuIndexEntry wrong size"
       ELSE ""

(* The loop of from_v2 over tmp_menus: one menu per menu number, captioned  *)
(* by its parameter 255.                                                    *)
MenusOfV2(tmp_menus) ==
    [menu \in DOMAIN tmp_menus |->
        Only({MenuEntry(menu, c.caption_off, c.tooltip_off, c.params) :
                 c \in {check_param255(tmp_menus[menu])}})]

(* MenuIndex::from_v2: the header of the parameter table, then its records. *)
MenuIndex_from_v2(b, root_font_family) ==
    Only({
        LET bad == ParameterIndex_validate_schema(2, h.v[4], h.v[2])
        IN IF h.b.panic # "" THEN Res(h.b, EmptyIndex)
           ELSE IF root_font_family # h.v[3]
           THEN Res(Panic(h.b, "Mis-match font_family"), EmptyIndex)
           ELSE IF bad # "" THEN Res(Panic(h.b, bad), EmptyIndex)
           ELSE Only({
               IF rd.b.panic # "" THEN Res(rd.b, EmptyIndex)
               ELSE Index_new(Res(rd.b, MenusOfV2(rd.tmp_menus)), <<"menu_num">>,
                              "Duplicate menus detected")
               : rd \in {ParameterReadV2(h.b, h.v[1], EmptyIndex)}})
        : h \in {read_fields(b, <<2, 2, 1, 1>>, "Parameters")}})

(* MenuIndex::read_v3_entries: the (i, offset) with a non-zero offset.      *)
RECURSIVE MenuReadV3(_, _, _, _)
MenuReadV3(b, i, num_entries, tmp_info) ==
    IF i >= num_entries \/ b.panic # "" THEN [b |-> b, tmp_info |-> tmp_info]
    ELSE Only({
        IF r.b.panic # "" THEN [b |-> r.b, tmp_info |-> tmp_info]
        ELSE MenuReadV3(r.b, i + 1, num_entries,
                IF r.v > 0 THEN Append(tmp_info, <<i, r.v>>) ELSE tmp_info)
        : r \in {read_le_3bytes(b, "Menus")}})

(* MenuIndex::read_v4_entries (caption, tooltip, offset): the records with  *)
(* a caption.                                                               *)
RECURSIVE MenuReadV4(_, _, _, _)
MenuReadV4(b, i, num_entries, tmp_info) ==
    IF i >= num_entries \/ b.panic # "" THEN [b |-> b, tmp_info |-> tmp_info]
    ELSE Only({
        IF r.b.panic # "" THEN [b |-> r.b, tmp_info |-> tmp_info]
        ELSE MenuReadV4(r.b, i + 1, num_entries,
                IF r.v[1] > 0 THEN Append(tmp_info, <<i, r.v[1], r.v[2], r.v[3]>>)
                ELSE tmp_info)
        : r \in {read_fields(b, <<3, 3, 3>>, "Menus")}})

(* The loop of from_v3 over tmp_info.                                       *)
RECURSIVE MenuBuildV3(_, _, _, _)
MenuBuildV3(b, tmp_info, font_family, menus) ==
    IF tmp_info = <<>> \/ b.panic # "" THEN Res(b, menus)
    ELSE Only({
        IF p.b.panic # "" THEN Res(p.b, menus)
        ELSE MenuBuildV3(p.b, Tail(tmp_info), font_family,
                MapInsert(menus, Head(tmp_info)[1],
                          MenuEntry(Head(tmp_info)[1], p.caption_off, p.tooltip_off, p.idx)))
        : p \in {ParameterIndex_from_v3(set_pos(b, Head(tmp_info)[2]), font_family)}})

(* The loop of from_v4 over tmp_info.                                       *)
RECURSIVE MenuBuildV4(_, _, _)
MenuBuildV4(b, tmp_info, menus) ==
    IF tmp_info = <<>> \/ b.panic # "" THEN Res(b, menus)
    ELSE Only({
        IF p.b.panic # "" THEN Res(p.b, menus)
        ELSE MenuBuildV4(p.b, Tail(tmp_info),
                MapInsert(menus, Head(tmp_info)[1],
                          MenuEntry(Head(tmp_info)[1], Head(tmp_info)[2],
                                    Head(tmp_info)[3], p.idx)))
        : p \in {ParameterIndex_from_v4(set_pos(b, Head(tmp_info)[4]))}})

(* MenuIndex::from_v3: num_menus, idx_entry_len, the records, the tables.   *)
MenuIndex_from_v3(b, font_family) ==
    Only({
        LET bad == MenuIndex_validate_schema(3, h.v[2])
        IN IF h.b.panic # "" THEN Res(h.b, EmptyIndex)
           ELSE IF bad # "" THEN Res(Panic(h.b, bad), EmptyIndex)
           ELSE Only({Index_new(MenuBuildV3(rd.b, rd.tmp_info, font_family, EmptyIndex),
                                <<"menu_num">>, "Duplicate menus detected") :
                         rd \in {MenuReadV3(h.b, 0, h.v[1], <<>>)}})
        : h \in {read_fields(b, <<1, 1>>, "Menus")}})

(* MenuIndex::from_v4                                                       *)
MenuIndex_from_v4(b) ==
    Only({
        LET bad == MenuIndex_validate_schema(4, h.v[2])
        IN IF h.b.panic # "" THEN Res(h.b, EmptyIndex)
           ELSE IF bad # "" THEN Res(Panic(h.b, bad), EmptyIndex)
           ELSE Only({Index_new(MenuBuildV4(rd.b, rd.tmp_info, EmptyIndex),
                                <<"menu_num">>, "Duplicate menus detected") :
                         rd \in {MenuReadV4(h.b, 0, h.v[1], <<>>)}})
        : h \in {read_fields(b, <<1, 1>>, "Menus")}})

-----------------------------------------------------------------------------
(* modes.rs                                                                 *)

MaxModes == 4

(* validate_schema without the upper limit on the number of modes.         *)
ModeIndex_validate_schema_no_maximum(schema, idx_entry_len, num_modes) ==
    LET want == CASE schema = 2 -> 5 [] schema = 3 -> 3 [] schema = 4 -> 3 [] OTHER -> 0
    IN IF schema \notin {2, 3, 4} THEN "Invalid format"
       ELSE IF idx_entry_len # want THEN "ModeIndexEntry wrong size"
       ELSE IF num_modes < 1 THEN "Too few modes"
       ELSE ""

(* ModeIndex::validate_schema: "" or the panic message.                     *)
ModeIndex_validate_schema(schema, idx_entry_len, num_modes) ==
    LET want == CASE schema = 2 -> 5 [] schema = 3 -> 3 [] schema = 4 -> 3 [] OTHER -> 0
    IN IF schema \notin {2, 3, 4} THEN "Invalid format"
       ELSE IF idx_entry_len # want THEN "ModeIndexEntry wrong size"
       ELSE IF num_modes < 1 THEN "Too few modes"
       ELSE IF num_modes > MaxModes THEN "Too many modes"
       ELSE ""

(* ModeIndex::read_v2_entries: the mode number (checked before the offset   *)
(* is read), the offset.                                                    *)
RECURSIVE ModeReadV2(_, _, _, _)
ModeReadV2(b, i, num_entries, tmp_info) ==
    IF i >= num_entries \/ b.panic # "" THEN [b |-> b, tmp_info |-> tmp_info]
    ELSE Only({
        IF r1.b.panic # "" THEN [b |-> r1.b, tmp_info |-> tmp_info]
        ELSE IF num_entries > 1 /\ r1.v # i + 1
        THEN [b |-> Panic(r1.b, "Out of seq mode numbers"), tmp_info |-> tmp_info]
        ELSE IF num_entries <= 1 /\ r1.v # 0 /\ r1.v # 1
        THEN [b |-> Panic(r1.b, "Invalid mode_num"), tmp_info |-> tmp_info]
        ELSE Only({
            IF r2.b.panic # "" THEN [b |-> r2.b, tmp_info |-> tmp_info]
            ELSE IF r2.v = 0 THEN [b |-> Panic(r2.b, "Offset is zero"), tmp_info |-> tmp_info]
            ELSE ModeReadV2(r2.b, i + 1, num_entries, Append(tmp_info, <<r1.v, r2.v>>))
            : r2 \in {read_le_4bytes(r1.b, "Modes")}})
        : r1 \in {read_byte(b, "Modes")}})

(* ModeIndex::read_v3_entries: mode 0 for a single record, else i + 1; a    *)
(* zero offset is a panic for a single record and skipped otherwise.        *)
RECURSIVE ModeReadV3(_, _, _, _)
ModeReadV3(b, i, num_entries, tmp_info) ==
    IF i >= num_entries \/ b.panic # "" THEN [b |-> b, tmp_info |-> tmp_info]
    ELSE Only({
        IF r.b.panic # "" THEN [b |-> r.b, tmp_info |-> tmp_info]
        ELSE IF num_entries = 1 /\ r.v = 0
        THEN [b |-> Panic(r.b, "Offset is zero"), tmp_info |-> tmp_info]
        ELSE ModeReadV3(r.b, i + 1, num_entries,
                IF r.v # 0
                THEN Append(tmp_info, <<IF num_entries = 1 THEN 0 ELSE i + 1, r.v>>)
                ELSE tmp_info)
        : r \in {read_le_3bytes(b, "Modes")}})

(* The match on the schema in create_from_file (modes.rs 63-68).            *)
MenuIndex_from(b, schema, font_family) ==
    CASE schema = 2 -> MenuIndex_from_v2(b, font_family)
      [] schema = 3 -> MenuIndex_from_v3(b, font_family)
      [] schema = 4 -> MenuIndex_from_v4(b)
      [] OTHER -> Res(Panic(b, "Invalid format"), EmptyIndex)

(* The loop of create_from_file over tmp_info.                              *)
RECURSIVE ModeBuild(_, _, _, _, _)
ModeBuild(b, tmp_info, schema, font_family, modes) ==
    IF tmp_info = <<>> \/ b.panic # "" THEN Res(b, modes)
    ELSE IF Head(tmp_info)[2] = 0 THEN Res(Panic(b, "Unexpected empty mode"), modes)
    ELSE Only({
        IF m.b.panic # "" THEN Res(m.b, modes)
        ELSE ModeBuild(m.b, Tail(tmp_info), schema, font_family,
                MapInsert(modes, Head(tmp_info)[1],
                          [mode_num |-> Head(tmp_info)[1], menu_index |-> m.idx]))
        : m \in {MenuIndex_from(set_pos(b, Head(tmp_info)[2]), schema, font_family)}})

(* ModeIndex::create_from_file: num_modes, idx_entry_len, the records, the  *)
(* menu tables.                                                             *)
ModeIndex_create_from_file(b, schema, font_family) ==
    Only({
        LET bad == ModeIndex_validate_schema(schema, h.v[2], h.v[1])
        IN IF h.b.panic # "" THEN Res(h.b, EmptyIndex)
           ELSE IF bad # "" THEN Res(Panic(h.b, bad), EmptyIndex)
           ELSE Only({Index_new(ModeBuild(rd.b, rd.tmp_info, schema, font_family, EmptyIndex),
                                <<"mode_num">>, "Duplicate modes detected") :
                         rd \in {IF schema = 2 THEN ModeReadV2(h.b, 0, h.v[1], <<>>)
                                 ELSE ModeReadV3(h.b, 0, h.v[1], <<>>)}})
        : h \in {read_fields(b, <<1, 1>>, "Modes")}})

-----------------------------------------------------------------------------
(* products.rs                                                              *)

MinProducts == 10

MaxProducts == 40

(* ProductIndex::validate_schema: "" or the panic message.                  *)
ProductIndex_validate_schema(schema, idx_entry_len, num_of_products) ==
    LET want == CASE schema = 2 -> 8 [] schema = 3 -> 11 [] schema = 4 -> 11 [] OTHER -> 0
    IN IF schema \notin {2, 3, 4} THEN "Invalid format"
       ELSE IF idx_entry_len # want THEN "ProductIndexEntry wrong size"
       ELSE IF num_of_products < MinProducts THEN "Seems none many products!"
       ELSE IF num_of_products > MaxProducts THEN "Seems a lot of products!"
       ELSE ""

(* ProductIndex::read_v2_entries: flags (above 15 a panic, before the rest  *)
(* is read), derivative, product id, offset.                                *)
RECURSIVE ProductReadV2(_, _, _)
ProductReadV2(b, left, tmp_info) ==
    IF left = 0 \/ b.panic # "" THEN [b |-> b, tmp_info |-> tmp_info]
    ELSE Only({
        IF r1.b.panic # "" THEN [b |-> r1.b, tmp_info |-> tmp_info]
        ELSE IF r1.v > 15
        THEN [b |-> Panic(r1.b, "Invalid flags in product index"), tmp_info |-> tmp_info]
        ELSE Only({
            IF r2.b.panic # "" THEN [b |-> r2.b, tmp_info |-> tmp_info]
            ELSE ProductReadV2(r2.b, left - 1,
                    Append(tmp_info, <<r2.v[2], r2.v[1], r2.v[1], r1.v, r2.v[3]>>))
            : r2 \in {read_fields(r1.b, <<1, 2, 4>>, "Products")}})
        : r1 \in {read_byte(b, "Products")}})

(* ProductIndex::read_v3_entries: product id, derivative low and high,      *)
(* flags, offset.                                                           *)
RECURSIVE ProductReadV3(_, _, _)
ProductReadV3(b, left, tmp_info) ==
    IF left = 0 \/ b.panic # "" THEN [b |-> b, tmp_info |-> tmp_info]
    ELSE Only({
        IF r.b.panic # "" THEN [b |-> r.b, tmp_info |-> tmp_info]
        ELSE ProductReadV3(r.b, left - 1, Append(tmp_info, r.v))
        : r \in {read_fields(b, <<2, 2, 2, 2, 3>>, "Products")}})

(* The loop of create_from_file over tmp_info: products.insert keeps the    *)
(* later record of a product id.                                            *)
RECURSIVE ProductBuild(_, _, _, _, _)
ProductBuild(b, tmp_info, schema, font_family, products) ==
    IF tmp_info = <<>> \/ b.panic # "" THEN Res(b, products)
    ELSE Only({
        IF m.b.panic # "" THEN Res(m.b, products)
        ELSE ProductBuild(m.b, Tail(tmp_info), schema, font_family,
                MapInsert(products, Head(tmp_info)[1],
                          [product_id |-> Head(tmp_info)[1],
                           derivative_id_low |-> Head(tmp_info)[2],
                           derivative_id_high |-> Head(tmp_info)[3],
                           flags |-> Head(tmp_info)[4], mode_index |-> m.idx]))
        : m \in {ModeIndex_create_from_file(set_pos(b, Head(tmp_info)[5]), schema, font_family)}})

(* ProductIndex::create_from_file: num_products, idx_entry_len, the         *)
(* records, the mode tables, ProductIndex::new.                             *)
ProductIndex_create_from_file(b, schema, font_family) ==
    Only({
        LET bad == ProductIndex_validate_schema(schema, h.v[2], h.v[1])
        IN IF h.b.panic # "" THEN Res(h.b, EmptyIndex)
           ELSE IF bad # "" THEN Res(Panic(h.b, bad), EmptyIndex)
           ELSE Only({
                   Index_new(ProductBuild(rd.b, rd.tmp_info, schema, font_family, EmptyIndex),
                             <<"product_id", "derivative_id_low", "derivative_id_high">>,
                             "Duplicate products detected")
               : rd \in {IF schema = 2 THEN ProductReadV2(h.b, h.v[1], <<>>)
                         ELSE ProductReadV3(h.b, h.v[1], <<>>)}})
        : h \in {read_fields(b, <<1, 1>>, "Products")}})

-----------------------------------------------------------------------------
(* units.rs                                                                 *)

(* UnitsIndex::validate_schema: "" or the panic message.                    *)
UnitsIndex_validate_schema(schema, idx_entry_len, max_str_len) ==
    LET want == CASE schema = 2 -> 6 [] schema = 3 -> 5 [] schema = 4 -> 8 [] OTHER -> 0
        req_str_len == IF schema = 4 THEN 256 ELSE 16
    IN IF schema \notin {2, 3, 4} THEN "Invalid format"
       ELSE IF idx_entry_len # want THEN "UnitsIndexEntry wrong size"
       ELSE IF max_str_len # req_str_len THEN "Units, max string len"
       ELSE ""

(* UnitsIndexEntry::load_v2, load_v3 (one read of the whole record) and     *)
(* load_v4 (three reads): the unit id, the caption and the tooltip offsets. *)
UnitsLoad(b, schema) ==
    IF schema = 4
    THEN Only({[b |-> r.b, units |-> r.v[1], caption_off |-> r.v[2], tooltip_off |-> r.v[3]] :
                  r \in {read_fields(b, <<2, 3, 3>>, "Units")}})
    ELSE Only({[b |-> r.b, units |-> little_endian_2_bytes(SubSeq(r.buf, 1, 2)),
                caption_off |-> IF schema = 2 THEN little_endian_4_bytes(SubSeq(r.buf, 3, 6))
                                ELSE little_endian_3_bytes(SubSeq(r.buf, 3, 5)),
                tooltip_off |-> 0] :
                  r \in {read_exact(b, IF schema = 2 THEN 6 ELSE 5, "Units")}})

(* The loop of UnitsIndex::from: units.insert keeps the later record of a   *)
(* unit id.                                                                 *)
RECURSIVE UnitsLoop(_, _, _, _)
UnitsLoop(b, left, schema, units) ==
    IF left = 0 \/ b.panic # "" THEN Res(b, units)
    ELSE Only({
        IF ld.b.panic # "" THEN Res(ld.b, units)
        ELSE IF ld.caption_off = 0 THEN Res(Panic(ld.b, "Empty slot"), units)
        ELSE UnitsLoop(ld.b, left - 1, schema,
                MapInsert(units, ld.units,
                          [units |-> ld.units, caption_off |-> ld.caption_off,
                           tooltip_off |-> ld.tooltip_off]))
        : ld \in {UnitsLoad(b, schema)}})

(* The header of UnitsIndex::from: num_entries, below schema 4 max_str_len  *)
(* and font_family (a mismatch panics before idx_entry_len is read), then   *)
(* idx_entry_len.                                                           *)
UnitsHeader(b, schema, root_font_family) ==
    IF schema < 4
    THEN Only({
        IF h.b.panic # "" THEN [b |-> h.b, v |-> <<0, 0, 0>>]
        ELSE IF root_font_family # h.v[3]
        THEN [b |-> Panic(h.b, "Mis-match font_family"), v |-> <<0, 0, 0>>]
        ELSE Only({[b |-> e.b, v |-> <<h.v[1], h.v[2], e.v>>] :
                      e \in {read_byte(h.b, "Units")}})
        : h \in {read_fields(b, <<2, 2, 1>>, "Units")}})
    ELSE Only({[b |-> h.b, v |-> <<h.v[1], 256, h.v[2]>>] :
                  h \in {read_fields(b, <<2, 1>>, "Units")}})

(* UnitsIndex::from                                                         *)
UnitsIndex_from(b, schema, root_font_family) ==
    Only({
        LET bad == UnitsIndex_validate_schema(schema, h.v[3], h.v[2])
        IN IF h.b.panic # "" THEN Res(h.b, EmptyIndex)
           ELSE IF bad # "" THEN Res(Panic(h.b, bad), EmptyIndex)
           ELSE Index_new(UnitsLoop(h.b, h.v[1], schema, EmptyIndex), <<"units">>,
                          "Duplicate units detected")
        : h \in {UnitsHeader(b, schema, root_font_family)}})

-----------------------------------------------------------------------------
(* enumerations.rs                                                          *)

(* EnumerationsIndex::validate_schema: "" or the panic message.             *)
EnumerationsIndex_validate_schema(schema, idx_entry_len, max_str_len) ==
    LET want == CASE schema = 2 -> 6 [] schema = 3 -> 5 [] schema = 4 -> 5 [] OTHER -> 0
        req_string_len == IF schema = 4 THEN 256 ELSE 16
    IN IF schema \notin {2, 3, 4} THEN "Invalid format"
       ELSE IF idx_entry_len # want THEN "EnumerationIndexEntry wrong size"
       ELSE IF max_str_len # req_string_len THEN "Max string len"
       ELSE ""

(* The id and the offset of a record read whole, 6 bytes in schema 2 and 5  *)
(* above (load_v2 / load_v3 of enumerations.rs and keypadstrs.rs).          *)
RecordId(buf) == little_endian_2_bytes(SubSeq(buf, 1, 2))

RecordOffset(buf, schema) ==
    IF schema = 2 THEN little_endian_4_bytes(SubSeq(buf, 3, 6))
    ELSE little_endian_3_bytes(SubSeq(buf, 3, 5))

(* The loop of EnumerationsIndex::from over load_v2 / load_v3: a second     *)
(* record of an enumeration makes insert hand back the first, a panic.      *)
RECURSIVE EnumerationsLoop(_, _, _, _)
EnumerationsLoop(b, left, schema, enumerations) ==
    IF left = 0 \/ b.panic # "" THEN Res(b, enumerations)
    ELSE Only({
        IF r.b.panic # "" THEN Res(r.b, enumerations)
        ELSE IF RecordOffset(r.buf, schema) = 0 THEN Res(Panic(r.b, "Empty slot"), enumerations)
        ELSE IF RecordId(r.buf) \in DOMAIN enumerations
        THEN Res(Panic(r.b, "Two entries with same mnemonic!"), enumerations)
        ELSE EnumerationsLoop(r.b, left - 1, schema,
                MapInsert(enumerations, RecordId(r.buf),
                          [caption_off |-> RecordOffset(r.buf, schema)]))
        : r \in {read_exact(b, IF schema = 2 THEN 6 ELSE 5, "Enumerations")}})

(* EnumerationsIndex::from: num_entries; then max_str_len, font_family and  *)
(* idx_entry_len below schema 4, idx_entry_len alone in schema 4.           *)
EnumerationsIndex_from(b, schema, root_font_family) ==
    Only({Only({
        LET max_str_len == IF schema < 4 THEN little_endian_2_bytes(SubSeq(r2.buf, 1, 2)) ELSE 256
            font_family == IF schema < 4 THEN r2.buf[3] ELSE root_font_family
            idx_entry_len == IF schema < 4 THEN r2.buf[4] ELSE r2.buf[1]
            bad == EnumerationsIndex_validate_schema(schema, idx_entry_len, max_str_len)
        IN IF r2.b.panic # "" THEN Res(r2.b, EmptyIndex)
           ELSE IF root_font_family # font_family
           THEN Res(Panic(r2.b, "Mis-match font_family"), EmptyIndex)
           ELSE IF bad # "" THEN Res(Panic(r2.b, bad), EmptyIndex)
           ELSE EnumerationsLoop(r2.b, little_endian_2_bytes(r1.buf), schema, EmptyIndex)
        : r2 \in {read_exact(r1.b, IF schema < 4 THEN 4 ELSE 1, "Enumerations")}})
        : r1 \in {read_exact(b, 2, "Enumerations")}})

-----------------------------------------------------------------------------
(* keypadstrs.rs.  Its reads name no region: they take the bytes at the     *)
(* cursor and move it, and leave the region labels alone.                   *)

read_exact_unlabelled(b, to_read) ==
    IF b.panic # "" THEN [b |-> b, buf |-> Zeros(to_read)]
    ELSE IF b.pos + to_read > FileLen
    THEN [b |-> Panic(b, "index out of bounds"), buf |-> Zeros(to_read)]
    ELSE [b |-> [b EXCEPT !.pos = b.pos + to_read],
          buf |-> [k \in 1..to_read |-> data[b.pos + k]]]

KeypadStrLen == 32

(* KeypadStrIndex::validate_schema: "" or the panic message.                *)
KeypadStrIndex_validate_schema(schema, idx_entry_len, max_str_len) ==
    LET want == CASE schema = 2 -> 6 [] schema = 3 -> 5 [] OTHER -> 0
    IN IF schema \notin {2, 3} THEN "Invalid format"
       ELSE IF idx_entry_len # want THEN "KeypadStrIndexEntry wrong size"
       ELSE IF max_str_len # KeypadStrLen THEN "Keypad string len is incorrect"
       ELSE ""

RECURSIVE KeypadStrLoop(_, _, _, _)
KeypadStrLoop(b, left, schema, keypad_strs) ==
    IF left = 0 \/ b.panic # "" THEN Res(b, keypad_strs)
    ELSE Only({
        IF r.b.panic # "" THEN Res(r.b, keypad_strs)
        ELSE IF RecordOffset(r.buf, schema) = 0 THEN Res(Panic(r.b, "Empty slot"), keypad_strs)
        ELSE IF RecordId(r.buf) \in DOMAIN keypad_strs
        THEN Res(Panic(r.b, "Two entries with same keypad strings!"), keypad_strs)
        ELSE KeypadStrLoop(r.b, left - 1, schema,
                MapInsert(keypad_strs, RecordId(r.buf),
                          [caption_off |-> RecordOffset(r.buf, schema)]))
        : r \in {read_exact_unlabelled(b, IF schema = 2 THEN 6 ELSE 5)}})

(* KeypadStrIndex::from: a header of 6 bytes (num_entries, max_str_len,     *)
(* font_family, idx_entry_len), then the records.                           *)
KeypadStrIndex_from(b, schema, root_font_family) ==
    Only({
        LET bad == KeypadStrIndex_validate_schema(schema, r.buf[6],
                                                  little_endian_2_bytes(SubSeq(r.buf, 3, 4)))
        IN IF r.b.panic # "" THEN Res(r.b, EmptyIndex)
           ELSE IF root_font_family # r.buf[5]
           THEN Res(Panic(r.b, "Mis-match font_family"), EmptyIndex)
           ELSE IF bad # "" THEN Res(Panic(r.b, bad), EmptyIndex)
           ELSE KeypadStrLoop(r.b, little_endian_2_bytes(SubSeq(r.buf, 1, 2)), schema, EmptyIndex)
        : r \in {read_exact_unlabelled(b, 6)}})

-----------------------------------------------------------------------------
(* The to_string of the entries, and the dump loops of Language::from       *)
(* (language.rs 102-154).  A printed line is a record: the table it is      *)
(* about, the keys from the product down to the entry, what kind of line it *)
(* is, the numbers it formats, and its text as code points.                 *)

Line(table, path, label, nums, text) ==
    [table |-> table, path |-> path, label |-> label, nums |-> nums, text |-> text]

(* " / " between caption and tooltip.                                       *)
Slash == <<32, 47, 32>>

(* MenuIndexEntry, ParameterIndexEntry, UnitsIndexEntry, and (without a     *)
(* tooltip) EnumerationsIndexEntry, KeypadStrIndexEntry ::to_string.        *)
Entry_to_string(b, caption_off, tooltip_off, max_length) ==
    Only({
        IF s1.kind # "Ok" \/ tooltip_off = 0 THEN [b |-> s1.b, kind |-> s1.kind, val |-> s1.val]
        ELSE Only({
            IF s2.kind # "Ok" THEN [b |-> s2.b, kind |-> s2.kind, val |-> s2.val]
            ELSE [b |-> s2.b, kind |-> "Ok", val |-> s1.val \o Slash \o s2.val]
            : s2 \in {get_string(s1.b, tooltip_off, max_length)}})
        : s1 \in {get_string(b, caption_off, max_length)}})

TooltipOf(e) == IF "tooltip_off" \in DOMAIN e THEN e.tooltip_off ELSE 0

Printed(b, lines) == [b |-> b, lines |-> lines]

(* One pass of a dump loop over a table whose lines are texts: to_string of *)
(* each entry in iteration order; an Err is a panic of Language::from.      *)
RECURSIVE DumpTexts(_, _, _, _, _, _, _)
DumpTexts(b, lines, keys, idx, table, path, max_length) ==
    IF keys = <<>> \/ b.panic # "" THEN Printed(b, lines)
    ELSE Only({
        IF r.kind = "Err" THEN Printed(Panic(r.b, "to_string"), lines)
        ELSE IF r.kind = "Panic" THEN Printed(r.b, lines)
        ELSE DumpTexts(r.b, Append(lines, Line(table, Append(path, Head(keys)), "text", <<>>, r.val)),
                       Tail(keys), idx, table, path, max_length)
        : r \in {Entry_to_string(b, idx[Head(keys)].caption_off, TooltipOf(idx[Head(keys)]),
                                 max_length)}})

ParamStrLen == 32

UnitStrLen == 16

(* The loop over the menus of a mode: the menu's line, then its parameters. *)
RECURSIVE DumpMenus(_, _, _, _, _)
DumpMenus(b, lines, keys, menus, path) ==
    IF keys = <<>> \/ b.panic # "" THEN Printed(b, lines)
    ELSE Only({
        IF me.b.panic # "" THEN me
        ELSE Only({
            IF pa.b.panic # "" THEN pa
            ELSE DumpMenus(pa.b, pa.lines, Tail(keys), menus, path)
            : pa \in {DumpTexts(me.b, me.lines, IterOrder(menus[Head(keys)].param_index),
                                menus[Head(keys)].param_index, "param",
                                Append(path, Head(keys)), ParamStrLen)}})
        : me \in {DumpTexts(b, lines, <<Head(keys)>>, menus, "menu", path, ParamStrLen)}})

ModeNames == <<"Any", "Open Loop", "RFC-A", "RFC-S", "Regen">>

(* ModeIndexEntry::to_string, then the menus of the mode.                   *)
RECURSIVE DumpModes(_, _, _, _, _)
DumpModes(b, lines, keys, modes, path) ==
    IF keys = <<>> \/ b.panic # "" THEN Printed(b, lines)
    ELSE IF Head(keys) >= Len(ModeNames) THEN Printed(Panic(b, "Unknown mode"), lines)
    ELSE Only({
        IF mn.b.panic # "" THEN mn
        ELSE DumpModes(mn.b, mn.lines, Tail(keys), modes, path)
        : mn \in {DumpMenus(b,
                      Append(lines, Line("mode", Append(path, Head(keys)), ModeNames[Head(keys) + 1],
                                         <<Cardinality(DOMAIN modes[Head(keys)].menu_index)>>, <<>>)),
                      IterOrder(modes[Head(keys)].menu_index), modes[Head(keys)].menu_index,
                      Append(path, Head(keys)))}})

(* ProductIndexEntry::to_string                                             *)
Product_to_string(e) ==
    LET num_modes == Cardinality(DOMAIN e.mode_index)
    IN IF e.derivative_id_high = 65535 /\ e.derivative_id_low = 0
       THEN [label |-> "ALL DERIVATIVES", nums |-> <<num_modes>>]
       ELSE IF e.derivative_id_high > e.derivative_id_low
       THEN [label |-> "Derv range", nums |-> <<e.derivative_id_low, e.derivative_id_high, num_modes>>]
       ELSE [label |-> "Derv", nums |-> <<e.derivative_id_low, num_modes>>]

RECURSIVE DumpProducts(_, _, _, _)
DumpProducts(b, lines, keys, products) ==
    IF keys = <<>> \/ b.panic # "" THEN Printed(b, lines)
    ELSE Only({
        IF md.b.panic # "" THEN md
        ELSE DumpProducts(md.b, md.lines, Tail(keys), products)
        : md \in {Only({DumpModes(b, Append(lines, Line("product", <<Head(keys)>>, ts.label, ts.nums, <<>>)),
                                  IterOrder(products[Head(keys)].mode_index),
                                  products[Head(keys)].mode_index, <<Head(keys)>>) :
                           ts \in {Product_to_string(products[Head(keys)])}})}})

-----------------------------------------------------------------------------
(* Shared shapes of the ghost variables and of the parts of the state a     *)
(* specification does not use.                                              *)

NoMap == [t \in {} |-> <<0, 0>>]

NoLast ==
    [seq |-> 0, op |-> "none", off |-> 0, n |-> 0, tag |-> "Empty", kind |-> "none", val |-> <<>>,
     bytes |-> <<>>, i |-> 0, called |-> FALSE, steps |-> <<>>]

NoPrev == [regions |-> <<>>, string_offsets |-> NoMap, pos |-> 0]

Snapshot == [regions |-> regions, string_offsets |-> string_offsets, pos |-> pos]

Store(b) ==
    /\ pos' = b.pos
    /\ regions' = b.regions
    /\ string_offsets' = b.string_offsets
    /\ panic' = b.panic

-----------------------------------------------------------------------------
(* SpecDecode: bytes_to_string in codepage mode as a function of its input. *)
(* Init draws the byte string; Decode applies the decoder to it.            *)

MaxDecodeLen == 3

(* 'A' (low bit 1), 'B' (low bit 0), a glyph-less code, a code missing from *)
(* the 1-byte map, and bytes with top bits 11 of either parity.             *)
DecodeBytes == {65, 66, 1, 129, 192, 193, 195, 255}

RECURSIVE SeqsUpTo(_, _)
SeqsUpTo(S, n) ==
    IF n = 0 THEN {<<>>}
    ELSE LET shorter == SeqsUpTo(S, n - 1)
         IN shorter \cup {Append(q, x) : q \in {r \in shorter : Len(r) = n - 1}, x \in S}

InitDecode ==
    /\ data = <<>>
    /\ overflow_checks \in BOOLEAN
    /\ is_utf8 = FALSE
    /\ regions = <<>>
    /\ string_offsets = NoMap
    /\ pos = 0
    /\ panic = ""
    /\ pc = "input"
    /\ hdr = <<>>
    /\ lang = <<>>
    /\ out = <<>>
    /\ \E bs \in SeqsUpTo(DecodeBytes, MaxDecodeLen) : last = [NoLast EXCEPT !.bytes = bs]
    /\ prev = NoPrev

Decode ==
    /\ pc = "input"
    /\ LET r == bytes_to_string(is_utf8, last.bytes)
       IN /\ last' = [last EXCEPT !.op = "bytes_to_string", !.kind = r.kind,
                                  !.val = r.val, !.steps = r.steps]
          /\ panic' = IF r.kind = "Panic" THEN "Failed to find character in map" ELSE ""
    /\ pc' = "decoded"
    /\ UNCHANGED <<data, overflow_checks, is_utf8, regions, string_offsets, pos, hdr, lang, out, prev>>

NextDecode == Decode

SpecDecode == InitDecode /\ [][NextDecode]_vars

-----------------------------------------------------------------------------
(* SpecBlob: the Blob's operations (cursor reads, set_pos, get_string)      *)
(* applied in any order to a freshly loaded blob, as FileBlob::load leaves  *)
(* it: pos 0, every region Empty, no string recorded.                       *)

BlobLen == 3

MaxOps == 3

MaxStrLen == 2

(* A terminator and 'A'.                                                    *)
BlobBytes == {0, 65}

ReadTags == {"Header", "Units"}

InitBlob ==
    /\ data \in [1..BlobLen -> BlobBytes]
    /\ overflow_checks \in BOOLEAN
    /\ is_utf8 = FALSE
    /\ regions = [i \in 1..BlobLen |-> "Empty"]
    /\ string_offsets = NoMap
    /\ pos = 0
    /\ panic = ""
    /\ pc = "blob"
    /\ hdr = <<>>
    /\ lang = <<>>
    /\ out = <<>>
    /\ last = NoLast
    /\ prev = NoPrev

BlobCanRun == pc = "blob" /\ panic = "" /\ last.seq < MaxOps

(* read_byte, read_le_2bytes, read_le_3bytes, read_le_4bytes.               *)
BlobRead(n, tag) ==
    /\ BlobCanRun
    /\ LET r == CASE n = 1 -> read_byte(BlobState, tag)
                  [] n = 2 -> read_le_2bytes(BlobState, tag)
                  [] n = 3 -> read_le_3bytes(BlobState, tag)
                  [] OTHER -> read_le_4bytes(BlobState, tag)
       IN /\ Store(r.b)
          /\ last' = [NoLast EXCEPT !.seq = last.seq + 1, !.op = "read", !.off = pos,
                                    !.n = n, !.tag = tag,
                                    !.kind = IF r.b.panic # "" THEN "Panic" ELSE "Ok",
                                    !.val = <<r.v>>]
    /\ prev' = Snapshot
    /\ UNCHANGED <<data, overflow_checks, is_utf8, pc, hdr, lang, out>>

BlobSetPos(p) ==
    /\ BlobCanRun
    /\ Store(set_pos(BlobState, p))
    /\ last' = [NoLast EXCEPT !.seq = last.seq + 1, !.op = "set_pos", !.off = p]
    /\ prev' = Snapshot
    /\ UNCHANGED <<data, overflow_checks, is_utf8, pc, hdr, lang, out>>

BlobGetString(off, n) ==
    /\ BlobCanRun
    /\ LET r == get_string(BlobState, off, n)
       IN /\ Store(r.b)
          /\ last' = [NoLast EXCEPT !.seq = last.seq + 1, !.op = "get_string", !.off = off,
                                    !.n = n, !.tag = "Text", !.kind = r.kind, !.val = r.val,
                                    !.bytes = r.bytes, !.i = r.i, !.called = r.called]
    /\ prev' = Snapshot
    /\ UNCHANGED <<data, overflow_checks, is_utf8, pc, hdr, lang, out>>

NextBlob ==
    \/ \E n \in 1..4, tag \in ReadTags : BlobRead(n, tag)
    \/ \E p \in 0..FileLen : BlobSetPos(p)
    \/ \E off \in 0..FileLen, n \in 0..MaxStrLen : BlobGetString(off, n)

SpecBlob == InitBlob /\ [][NextBlob]_vars

-----------------------------------------------------------------------------
(* SpecIndex: an index table filled in any order and then iterated with a   *)
(* for loop (into_iter once, next until None).  lang is the table, hdr the  *)
(* iterator's items, out the keys yielded so far, last.steps the keys in    *)
(* the order they were inserted.                                            *)

MaxInserts == 3

MaxKey == 2

IndexOffsets == {1, 2}

InitIndex ==
    /\ data = <<>>
    /\ overflow_checks \in BOOLEAN
    /\ is_utf8 = FALSE
    /\ regions = <<>>
    /\ string_offsets = NoMap
    /\ pos = 0
    /\ panic = ""
    /\ pc = "table"
    /\ hdr = <<>>
    /\ lang = EmptyIndex
    /\ out = <<>>
    /\ last = NoLast
    /\ prev = NoPrev

(* HashMap::insert                                                          *)
IndexInsert(k, off) ==
    /\ pc = "table"
    /\ last.seq < MaxInserts
    /\ lang' = MapInsert(lang, k, [caption_off |-> off])
    /\ last' = [last EXCEPT !.seq = last.seq + 1, !.op = "insert", !.steps = Append(last.steps, k)]
    /\ UNCHANGED <<data, overflow_checks, is_utf8, regions, string_offsets, pos, panic, pc, hdr, out, prev>>

IndexIntoIter ==
    /\ pc = "table"
    /\ hdr' = IntoIter(lang)
    /\ pc' = "iterating"
    /\ last' = [last EXCEPT !.op = "into_iter"]
    /\ UNCHANGED <<data, overflow_checks, is_utf8, regions, string_offsets, pos, panic, lang, out, prev>>

IndexIterNext ==
    /\ pc = "iterating"
    /\ LET nx == IterNext(hdr)
       IN /\ hdr' = nx.items
          /\ out' = IF nx.some THEN Append(out, nx.key) ELSE out
          /\ pc' = IF nx.some THEN "iterating" ELSE "finished"
    /\ last' = [last EXCEPT !.op = "next"]
    /\ UNCHANGED <<data, overflow_checks, is_utf8, regions, string_offsets, pos, panic, lang, prev>>

NextIndex ==
    \/ \E k \in 0..MaxKey, off \in IndexOffsets : IndexInsert(k, off)
    \/ IndexIntoIter
    \/ IndexIterNext

SpecIndex == InitIndex /\ [][NextIndex]_vars

-----------------------------------------------------------------------------
(* Spec: Language::from on a language file, stage by stage.  data is the    *)
(* file; hdr the fields of its header; lang the four indexes; out the       *)
(* lines the dump loops print.                                              *)

NoHdr ==
    [file_len |-> 0, file_crc |-> 0, schema |-> 0, locale_id |-> 0, font_family |-> 0,
     offset_size |-> 0, offsets |-> <<0, 0, 0, 0>>]

NoLang ==
    [product_index |-> EmptyIndex, enumeration_index |-> EmptyIndex,
     keypad_str_index |-> EmptyIndex, units_index |-> EmptyIndex]

(* A stage that aborted sends the run back to its start instead of ending   *)
(* it.                                                                      *)
After_restarts(b, next_pc) ==
    /\ pos' = b.pos
    /\ regions' = b.regions
    /\ string_offsets' = b.string_offsets
    /\ panic' = ""
    /\ pc' = IF b.panic # "" THEN "start" ELSE next_pc

(* Where a stage leaves the run: a panic ends it.                           *)
After(b, next_pc) ==
    /\ Store(b)
    /\ pc' = IF b.panic # "" THEN "panicked" ELSE next_pc

CommonHdrLen == 32

(* language.rs 28-37: the 32 bytes of the common header, read from the      *)
(* file itself; a shorter file is the Err read_language_file panics on.     *)
ReadCommonHeader ==
    /\ pc = "start"
    /\ IF Len(data) < CommonHdrLen
       THEN /\ panic' = "Failed to process"
            /\ pc' = "panicked"
            /\ hdr' = hdr
       ELSE /\ hdr' = [NoHdr EXCEPT !.file_len = little_endian_4_bytes(SubSeq(data, 1, 4)),
                                    !.file_crc = little_endian_4_bytes(SubSeq(data, 5, 8)),
                                    !.schema = little_endian_2_bytes(SubSeq(data, 9, 10)),
                                    !.locale_id = little_endian_2_bytes(SubSeq(data, 11, 12))]
            /\ pc' = "load"
            /\ panic' = panic
    /\ UNCHANGED <<data, overflow_checks, is_utf8, regions, string_offsets, pos, lang, out, last, prev>>

(* _Blob::display_stats: the number in "N bytes unused", one for every byte *)
(* whose region is Empty.                                                   *)
Unused(rs) == Cardinality({j \in 1..Len(rs) : rs[j] = "Empty"})

(* A load that tags the bytes of the common header as Header.               *)
LoadBlob_tags_common_header ==
    /\ pc = "load"
    /\ IF Len(data) # U32Pos(hdr.file_len)
       THEN /\ panic' = "File length incorrect"
            /\ pc' = "panicked"
            /\ UNCHANGED <<is_utf8, regions, string_offsets, pos>>
       ELSE /\ regions' = [i \in 1..Len(data) |-> IF i <= CommonHdrLen THEN "Header" ELSE "Empty"]
            /\ string_offsets' = NoMap
            /\ is_utf8' = (hdr.schema > 3)
            /\ pos' = CommonHdrLen
            /\ pc' = "header"
            /\ panic' = panic
    /\ UNCHANGED <<data, overflow_checks, hdr, lang, out, last, prev>>

(* language.rs 39-49: FileBlob::load (the whole file, its length checked    *)
(* against the header's, every region Empty, the UTF-8 maps for a schema    *)
(* above 3), then set_pos(32).                                              *)
LoadBlob ==
    /\ pc = "load"
    /\ IF Len(data) # U32Pos(hdr.file_len)
       THEN /\ panic' = "File length incorrect"
            /\ pc' = "panicked"
            /\ UNCHANGED <<is_utf8, regions, string_offsets, pos>>
       ELSE /\ regions' = [i \in 1..Len(data) |-> "Empty"]
            /\ string_offsets' = NoMap
            /\ is_utf8' = (hdr.schema > 3)
            /\ pos' = CommonHdrLen
            /\ pc' = "header"
            /\ panic' = panic
    /\ UNCHANGED <<data, overflow_checks, hdr, lang, out, last, prev>>

(* validate_schema looking at the schema only.                              *)
Language_validate_schema_any_width(schema, offset_size) ==
    IF schema \notin {2, 3, 4} THEN "Invalid format" ELSE ""

(* Language::validate_schema: "" or the panic message.                      *)
Language_validate_schema(schema, offset_size) ==
    LET want == CASE schema = 2 -> 4 [] schema = 3 -> 3 [] schema = 4 -> 3 [] OTHER -> 0
    IN IF schema \notin {2, 3, 4} \/ offset_size # want THEN "Invalid format" ELSE ""

(* Language::parse_offsets: products, enumerations, keypad strings, units.  *)
(* Every width is decoded by little_endian_3_bytes, the 4-byte ones of      *)
(* schema 2 included.                                                       *)
parse_offsets(b, schema) ==
    IF b.panic # "" THEN [b |-> b, offsets |-> <<0, 0, 0, 0>>]
    ELSE IF schema \notin {2, 3, 4}
    THEN [b |-> Panic(b, "Invalid format"), offsets |-> <<0, 0, 0, 0>>]
    ELSE Only({
        LET w == IF schema = 2 THEN 4 ELSE 3
            at(k) == little_endian_3_bytes(SubSeq(r.buf, w * k + 1, w * k + w))
        IN [b |-> r.b,
            offsets |-> IF schema = 4 THEN <<at(0), at(1), 0, at(2)>>
                        ELSE <<at(0), at(1), at(2), at(3)>>]
        : r \in {read_exact(b, CASE schema = 2 -> 16 [] schema = 3 -> 12 [] OTHER -> 9,
                            "Header")}})

(* language.rs 52-60: the font family, two bytes read as a u8 below schema  *)
(* 4 and 0 in schema 4.                                                     *)
ReadFontFamily(b, schema) ==
    IF schema < 4
    THEN Only({
        IF r.b.panic # "" THEN [b |-> r.b, v |-> 0]
        ELSE IF r.buf[2] # 0 THEN [b |-> Panic(r.b, "Too large"), v |-> 0]
        ELSE [b |-> r.b, v |-> r.buf[1]]
        : r \in {read_exact(b, 2, "Header")}})
    ELSE [b |-> b, v |-> 0]

(* language.rs 62-75: the offset size, validate_schema, parse_offsets.      *)
ReadOffsets(b, schema) ==
    Only({
        LET bad == Language_validate_schema(schema, r.v)
        IN Only({[b |-> po.b, offset_size |-> r.v, offsets |-> po.offsets] :
                    po \in {parse_offsets(IF r.b.panic = "" /\ bad # "" THEN Panic(r.b, bad)
                                          ELSE r.b, schema)}})
        : r \in {read_le_2bytes(b, "Header")}})

(* language.rs 52-75                                                        *)
ReadHeader ==
    /\ pc = "header"
    /\ \E ff \in {ReadFontFamily(BlobState, hdr.schema)} :
         \E po \in {ReadOffsets(ff.b, hdr.schema)} :
            /\ After(po.b, "products")
            /\ hdr' = IF po.b.panic # "" THEN hdr
                      ELSE [hdr EXCEPT !.font_family = ff.v, !.offset_size = po.offset_size,
                                       !.offsets = po.offsets]
    /\ UNCHANGED <<data, overflow_checks, is_utf8, lang, out, last, prev>>

(* language.rs 77-78                                                        *)
ReadProducts ==
    /\ pc = "products"
    /\ \E r \in {ProductIndex_create_from_file(set_pos(BlobState, hdr.offsets[1]),
                                               hdr.schema, hdr.font_family)} :
          /\ After(r.b, "enumerations")
          /\ lang' = IF r.b.panic # "" THEN lang ELSE [lang EXCEPT !.product_index = r.idx]
    /\ UNCHANGED <<data, overflow_checks, is_utf8, hdr, out, last, prev>>

(* language.rs 80-81                                                        *)
ReadEnumerations ==
    /\ pc = "enumerations"
    /\ \E r \in {EnumerationsIndex_from(set_pos(BlobState, hdr.offsets[2]),
                                        hdr.schema, hdr.font_family)} :
          /\ After(r.b, "keypad_strs")
          /\ lang' = IF r.b.panic # "" THEN lang ELSE [lang EXCEPT !.enumeration_index = r.idx]
    /\ UNCHANGED <<data, overflow_checks, is_utf8, hdr, out, last, prev>>

(* The keypad stage with a zero offset never fatal.                         *)
ReadKeypadStrs_never_fatal ==
    /\ pc = "keypad_strs"
    /\ \E r \in {IF hdr.offsets[3] > 0
                 THEN KeypadStrIndex_from(set_pos(BlobState, hdr.offsets[3]),
                                          hdr.schema, hdr.font_family)
                 ELSE Res(BlobState, EmptyIndex)} :
          /\ After(r.b, "units")
          /\ lang' = IF r.b.panic # "" THEN lang ELSE [lang EXCEPT !.keypad_str_index = r.idx]
    /\ UNCHANGED <<data, overflow_checks, is_utf8, hdr, out, last, prev>>

(* language.rs 83-90                                                        *)
ReadKeypadStrs ==
    /\ pc = "keypad_strs"
    /\ \E r \in {IF hdr.offsets[3] > 0
                 THEN KeypadStrIndex_from(set_pos(BlobState, hdr.offsets[3]),
                                          hdr.schema, hdr.font_family)
                 ELSE IF hdr.schema = 2
                 THEN Res(Panic(BlobState, "Missing Keypad strings in V2 language file"),
                          EmptyIndex)
                 ELSE Res(BlobState, EmptyIndex)} :
          /\ After(r.b, "units")
          /\ lang' = IF r.b.panic # "" THEN lang ELSE [lang EXCEPT !.keypad_str_index = r.idx]
    /\ UNCHANGED <<data, overflow_checks, is_utf8, hdr, out, last, prev>>

(* language.rs 92-100                                                       *)
ReadUnits ==
    /\ pc = "units"
    /\ \E r \in {UnitsIndex_from(set_pos(BlobState, hdr.offsets[4]), hdr.schema,
                                 hdr.font_family)} :
          /\ After(r.b, "dump_products")
          /\ lang' = IF r.b.panic # "" THEN lang ELSE [lang EXCEPT !.units_index = r.idx]
    /\ UNCHANGED <<data, overflow_checks, is_utf8, hdr, out, last, prev>>

(* language.rs 102-127                                                      *)
PrintProducts ==
    /\ pc = "dump_products"
    /\ \E r \in {DumpProducts(BlobState, out, IterOrder(lang.product_index),
                              lang.product_index)} :
          /\ After(r.b, "dump_enumerations")
          /\ out' = r.lines
    /\ UNCHANGED <<data, overflow_checks, is_utf8, hdr, lang, last, prev>>

(* language.rs 129-136                                                      *)
PrintEnumerations ==
    /\ pc = "dump_enumerations"
    /\ \E r \in {DumpTexts(BlobState, out, IterOrder(lang.enumeration_index),
                           lang.enumeration_index, "enumeration", <<>>, UnitStrLen)} :
          /\ After(r.b, "dump_keypad_strs")
          /\ out' = r.lines
    /\ UNCHANGED <<data, overflow_checks, is_utf8, hdr, lang, last, prev>>

(* language.rs 138-145                                                      *)
PrintKeypadStrs ==
    /\ pc = "dump_keypad_strs"
    /\ \E r \in {DumpTexts(BlobState, out, IterOrder(lang.keypad_str_index),
                           lang.keypad_str_index, "keypad_str", <<>>, KeypadStrLen)} :
          /\ After(r.b, "dump_units")
          /\ out' = r.lines
    /\ UNCHANGED <<data, overflow_checks, is_utf8, hdr, lang, last, prev>>

(* language.rs 147-158: the units, display_stats (prints only), Ok(lang).   *)
PrintUnits ==
    /\ pc = "dump_units"
    /\ \E r \in {DumpTexts(BlobState, out, IterOrder(lang.units_index),
                           lang.units_index, "unit", <<>>, UnitStrLen)} :
          /\ After(r.b, "done")
          /\ out' = r.lines
    /\ UNCHANGED <<data, overflow_checks, is_utf8, hdr, lang, last, prev>>

(* The language files the run starts from.  LE2, LE3, LE4 lay a number out  *)
(* low byte first, as the readers take it in.                               *)

LE2(v) == <<v % 256, (v \div 256) % 256>>

LE3(v) == <<v % 256, (v \div 256) % 256, (v \div 65536) % 256>>

LE4(v) == <<v % 256, (v \div 256) % 256, (v \div 65536) % 256, (v \div 16777216) % 256>>

RECURSIVE Flatten(_)
Flatten(qs) == IF qs = <<>> THEN <<>> ELSE Head(qs) \o Flatten(Tail(qs))

(* "Speed": the caption of the one parameter.                               *)
Speed == <<83, 112, 101, 101, 100>>

(* "On": the caption of the one enumeration.                                *)
OnText == <<79, 110>>

(* The caption of the j-th unit record: "A", "B", ...                       *)
UnitText(j) == <<64 + j>>

(* What the sample files are built around: the font family of every table, *)
(* and the number of the one parameter.                                     *)
Sample == [font |-> 1, param |-> 5]

CommonHeader(file_len, schema) ==
    LE4(file_len) \o LE4(0) \o LE2(schema) \o LE2(0) \o <<0, 0, 0, 1>> \o Zeros(16)

(* A schema-3 file: the header, offsets to the tables (no keypad strings),  *)
(* one product record per entry of pids with the derivative range 0..65535, *)
(* all pointing to one mode table with the single mode 0, its menu 0 with   *)
(* the parameter Sample.param captioned "Speed", one enumeration, and one units *)
(* record per entry of uids.                                                *)
V3File(pids, uids) ==
    LET n == Len(pids)
        k == Len(uids)
        P == 52
        M == P + 2 + 11 * n
        N == M + 5
        Q == N + 5
        S == Q + 11
        E == S + 6
        ES == E + 11
        U == ES + 3
        US == U + 6 + 5 * k
        total == US + 2 * k
    IN Flatten(<<
         CommonHeader(total, 3), LE2(Sample.font), LE2(3),
         LE3(P), LE3(E), LE3(0), LE3(U), Zeros(4),
         <<n, 11>>,
         Flatten([i \in 1..n |-> LE2(pids[i]) \o LE2(0) \o LE2(65535) \o LE2(0) \o LE3(M)]),
         <<1, 3>>, LE3(N),
         <<1, 3>>, LE3(Q),
         LE2(1), LE2(32), <<Sample.font, 5>>, LE2(Sample.param), LE3(S),
         Speed, <<0>>,
         LE2(1), LE2(16), <<Sample.font, 5>>, LE2(1), LE3(ES),
         OnText, <<0>>,
         LE2(k), LE2(16), <<Sample.font, 5>>,
         Flatten([j \in 1..k |-> LE2(uids[j]) \o LE3(US + 2 * (j - 1))]),
         Flatten([j \in 1..k |-> UnitText(j) \o <<0>>]) >>)

(* "Menu": the caption of the one menu of a schema-4 file.                  *)
MenuText == <<77, 101, 110, 117>>

(* The same tree as a schema-4 file: no font family, three offsets, the     *)
(* menu with a caption of its own, the parameter with a mnemonic table of   *)
(* two values (1 and the u32 0xFFFFFFFF) captioned "On".                    *)
V4File(pids, uids) ==
    LET n == Len(pids)
        k == Len(uids)
        P == 43
        M == P + 2 + 11 * n
        N == M + 5
        Q == N + 11
        X == Q + 12
        S == X + 23
        MC == S + 6
        E == MC + 5
        ES == E + 8
        U == ES + 3
        US == U + 3 + 8 * k
        total == US + 2 * k
    IN Flatten(<<
         CommonHeader(total, 4), LE2(3),
         LE3(P), LE3(E), LE3(U),
         <<n, 11>>,
         Flatten([i \in 1..n |-> LE2(pids[i]) \o LE2(0) \o LE2(65535) \o LE2(0) \o LE3(M)]),
         <<1, 3>>, LE3(N),
         <<1, 9>>, LE3(MC), LE3(0), LE3(Q),
         <<1, 5>>, <<Sample.param>>, LE3(S), LE3(0), LE3(X),
         LE2(2), <<5>>, LE4(1), LE3(ES), LE3(0), <<255, 255, 255, 255>>, LE3(ES), LE3(0),
         Speed, <<0>>,
         MenuText, <<0>>,
         LE2(1), <<5>>, LE2(1), LE3(ES),
         OnText, <<0>>,
         LE2(k), <<8>>,
         Flatten([j \in 1..k |-> LE2(uids[j]) \o LE3(US + 2 * (j - 1)) \o LE3(0)]),
         Flatten([j \in 1..k |-> UnitText(j) \o <<0>>]) >>)

(* The same tree as a schema-2 file: 32-bit offsets, no menu table (the     *)
(* parameter records name their menu), and a keypad string table.           *)
V2File(pids, uids) ==
    LET n == Len(pids)
        k == Len(uids)
        P == 52
        M == P + 2 + 8 * n
        Q == M + 7
        S == Q + 12
        E == S + 6
        ES == E + 12
        K == ES + 3
        U == K + 12
        US == U + 6 + 6 * k
        total == US + 2 * k
    IN Flatten(<<
         CommonHeader(total, 2), LE2(Sample.font), LE2(4),
         LE4(P), LE4(E), LE4(K), LE4(U),
         <<n, 8>>,
         Flatten([i \in 1..n |-> <<0, 0>> \o LE2(pids[i]) \o LE4(M)]),
         <<1, 5>>, <<0>>, LE4(Q),
         LE2(1), LE2(32), <<Sample.font, 6>>, <<Sample.param, 0>>, LE4(S),
         Speed, <<0>>,
         LE2(1), LE2(16), <<Sample.font, 6>>, LE2(1), LE4(ES),
         OnText, <<0>>,
         LE2(1), LE2(32), <<Sample.font, 6>>, LE2(1), LE4(ES),
         LE2(k), LE2(16), <<Sample.font, 6>>,
         Flatten([j \in 1..k |-> LE2(uids[j]) \o LE4(US + 2 * (j - 1))]),
         Flatten([j \in 1..k |-> UnitText(j) \o <<0>>]) >>)

VFile(schema, pids, uids) ==
    CASE schema = 2 -> V2File(pids, uids)
      [] schema = 3 -> V3File(pids, uids)
      [] OTHER -> V4File(pids, uids)

Patch(f, off, v) == [f EXCEPT ![off + 1] = v]

MaxUnits == 2

UnitIds == {3, 7}

UnitIdLists == SeqsUpTo(UnitIds, MaxUnits) \ {<<>>}

(* Product ids 1..n, or with the second record repeating the id of the      *)
(* first.                                                                   *)
ProductIds(n, repeat) == [i \in 1..n |-> IF repeat /\ i = 2 THEN 1 ELSE i]

ProductCounts == {1, MinProducts}

PatchValues == {0, 52, 255}

Schemas == {2, 3, 4}

BaseFile(schema) == VFile(schema, ProductIds(MinProducts, FALSE), <<7, 3>>)

(* A caption one byte longer than the length the units' to_string passes.   *)
LongCaption == [i \in 1..(UnitStrLen + 1) |-> 66]

(* The schema-4 base file with the caption of its last unit (id 3) grown    *)
(* from "B" to LongCaption, and the file length of the header with it.      *)
LongCaptionFile ==
    LET f == BaseFile(4)
    IN LE4(Len(f) + UnitStrLen) \o SubSeq(f, 5, Len(f) - 2) \o LongCaption \o <<0>>

(* The well-formed files, every base file with one byte patched, two       *)
(* truncated files, every base file with schema 0 and one byte more than    *)
(* its header declares, and the schema-4 file with a long unit caption.     *)
Files ==
    {VFile(sc, ProductIds(n, r), uids) :
        sc \in Schemas, n \in ProductCounts, r \in BOOLEAN, uids \in UnitIdLists}
    \cup UNION {{Patch(BaseFile(sc), off, v) : off \in 0..(Len(BaseFile(sc)) - 1), v \in PatchValues} :
                   sc \in Schemas}
    \cup {SubSeq(BaseFile(3), 1, CommonHdrLen - 1), SubSeq(BaseFile(3), 1, Len(BaseFile(3)) - 1)}
    \cup {Patch(BaseFile(sc), 8, 0) \o <<0>> : sc \in Schemas}
    \cup {LongCaptionFile}

Init ==
    /\ data \in Files
    /\ overflow_checks \in BOOLEAN
    /\ is_utf8 = FALSE
    /\ regions = <<>>
    /\ string_offsets = NoMap
    /\ pos = 0
    /\ panic = ""
    /\ pc = "start"
    /\ hdr = NoHdr
    /\ lang = NoLang
    /\ out = <<>>
    /\ last = NoLast
    /\ prev = NoPrev

Next ==
    \/ ReadCommonHeader
    \/ LoadBlob
    \/ ReadHeader
    \/ ReadProducts
    \/ ReadEnumerations
    \/ ReadKeypadStrs
    \/ ReadUnits
    \/ PrintProducts
    \/ PrintEnumerations
    \/ PrintKeypadStrs
    \/ PrintUnits

Spec == Init /\ [][Next]_vars

-----------------------------------------------------------------------------
(* SpecMnemonic: MnemonicIndex::from as a function of the table it reads.   *)
(* data is a mnemonic table at offset 0: num_entries, idx_entry_len, then   *)
(* the records; lang receives the index built.                              *)

MaxMnemonics == 2

(* The 4 bytes of a record's value: 0, 5, 0x7FFFFFF, 0x8000000, 0x7FFFFFFF, *)
(* 0x80000000, 0xFFFFFFFE, 0xFFFFFFFF.                                      *)
MnemonicRaws ==
    { <<0, 0, 0, 0>>, <<5, 0, 0, 0>>, <<255, 255, 255, 7>>, <<0, 0, 0, 8>>,
      <<255, 255, 255, 127>>, <<0, 0, 0, 128>>, <<254, 255, 255, 255>>,
      <<255, 255, 255, 255>> }

MnemonicCaptions == {0, 9}

MnemonicWidths == {0, 3, MnemonicEntryLen}

MnemonicRecords == [raw : MnemonicRaws, caption_off : MnemonicCaptions]

MnemonicTable(width, recs) ==
    LE2(Len(recs)) \o <<width>>
        \o Flatten([i \in 1..Len(recs) |-> recs[i].raw \o LE3(recs[i].caption_off) \o LE3(0)])

InitMnemonic ==
    /\ data \in {MnemonicTable(w, recs) :
                    w \in MnemonicWidths, recs \in SeqsUpTo(MnemonicRecords, MaxMnemonics)}
    /\ overflow_checks \in BOOLEAN
    /\ is_utf8 = TRUE
    /\ regions = [i \in 1..Len(data) |-> "Empty"]
    /\ string_offsets = NoMap
    /\ pos = 0
    /\ panic = ""
    /\ pc = "mnemonics"
    /\ hdr = NoHdr
    /\ lang = EmptyIndex
    /\ out = <<>>
    /\ last = NoLast
    /\ prev = NoPrev

(* parameters.rs 118-123: MnemonicIndex::from at the cursor.                *)
ReadMnemonics ==
    /\ pc = "mnemonics"
    /\ \E r \in {MnemonicIndex_from(BlobState)} :
          /\ After(r.b, "mnemonics_read")
          /\ lang' = r.idx
    /\ UNCHANGED <<data, overflow_checks, is_utf8, hdr, out, last, prev>>

NextMnemonic == ReadMnemonics

SpecMnemonic == InitMnemonic /\ [][NextMnemonic]_vars

-----------------------------------------------------------------------------
(* SpecMenu: MenuIndex::from_v3 as a function of the tables it reads.  data *)
(* is a schema-3 menu table at offset 0 with one menu, alone or after a     *)
(* slot whose offset is 0, and the parameter table of that menu; lang       *)
(* receives the menu index built.                                           *)

MaxParams == 2

ParamNumbers == {5, 6, 255}

ParamOffsets == {0, 40, 41}

ParamWidths == {0, 4, 5}

ParamRecords == [param : ParamNumbers, offset : ParamOffsets]

MenuShapes == {<<1>>, <<0, 1>>}

(* The menu table (num_menus, idx_entry_len 3, one offset per slot: 0 or    *)
(* the parameter table's), then the parameter table (num_entries,           *)
(* max_str_len 32, font_family, idx_entry_len, the records).                *)
MenuTableV3(shape, width, recs) ==
    LET at == 2 + 3 * Len(shape)
    IN <<Len(shape), 3>>
         \o Flatten([i \in 1..Len(shape) |-> LE3(shape[i] * at)])
         \o LE2(Len(recs)) \o LE2(32) \o <<Sample.font, width>>
         \o Flatten([i \in 1..Len(recs) |-> LE2(recs[i].param) \o LE3(recs[i].offset)])

InitMenu ==
    /\ data \in {MenuTableV3(shape, w, recs) :
                    shape \in MenuShapes, w \in ParamWidths,
                    recs \in SeqsUpTo(ParamRecords, MaxParams)}
    /\ overflow_checks \in BOOLEAN
    /\ is_utf8 = FALSE
    /\ regions = [i \in 1..Len(data) |-> "Empty"]
    /\ string_offsets = NoMap
    /\ pos = 0
    /\ panic = ""
    /\ pc = "menus"
    /\ hdr = NoHdr
    /\ lang = EmptyIndex
    /\ out = <<>>
    /\ last = NoLast
    /\ prev = NoPrev

(* modes.rs 62-67: MenuIndex::from_v3 at the cursor.                        *)
ReadMenus ==
    /\ pc = "menus"
    /\ \E r \in {MenuIndex_from_v3(BlobState, Sample.font)} :
          /\ After(r.b, "menus_read")
          /\ lang' = r.idx
    /\ UNCHANGED <<data, overflow_checks, is_utf8, hdr, out, last, prev>>

NextMenu == ReadMenus

SpecMenu == InitMenu /\ [][NextMenu]_vars

-----------------------------------------------------------------------------
(* Claims about the Blob's operations (SpecBlob).  last holds the operation *)
(* just applied, prev the diagnostics and cursor it started from.           *)

InFile(j) == j >= 0 /\ j < FileLen

PrevTag(j) == prev.regions[j + 1]

IsRead == last.op = "read"

IsResolve == last.op = "get_string" /\ last.off > 0

(* The span a string resolution of (off, n) covers, stated from the bytes:  *)
(* from off to the first zero byte of [off, off + n) inclusive, or all n    *)
(* bytes when there is none; clipped to the file.                           *)
ClaimZeros(off, n) == {j \in off..(off + n - 1) : InFile(j) /\ data[j + 1] = 0}

ClaimTextEnd(off, n) ==
    IF ClaimZeros(off, n) = {} THEN off + n ELSE Min(ClaimZeros(off, n))

ClaimSpan(off, n) ==
    {j \in off..(off + n - 1) : InFile(j) /\ j <= ClaimTextEnd(off, n)}

ClaimTextBytes(off, n) == [k \in 1..(ClaimTextEnd(off, n) - off) |-> data[off + k]]

Covered ==
    IF IsRead THEN {j \in last.off..(last.off + last.n - 1) : InFile(j)}
    ELSE ClaimSpan(last.off, last.n)

(* C1: a cursor read with tag T, or a string resolution (tag Text), that    *)
(* covers a byte already tagged with another non-Empty label aborts; it     *)
(* does not return and no earlier label is overwritten.                     *)
C1_ConflictAborts ==
    ((IsRead \/ IsResolve) /\ \E j \in Covered : PrevTag(j) \notin {"Empty", last.tag}) =>
        /\ panic # ""
        /\ last.kind = "Panic"
        /\ \A j \in 0..(FileLen - 1) : PrevTag(j) # "Empty" => regions[j + 1] = PrevTag(j)

(* A read inside the file was aborted by the region mismatch after it had   *)
(* tagged an Empty byte in front of the conflicting one.                    *)
C1_Witness ==
    /\ IsRead
    /\ panic = "Region type mismatch"
    /\ last.off + last.n <= FileLen
    /\ PrevTag(last.off) = "Empty"
    /\ regions[last.off + 1] = last.tag

(* C2: reading a range again with the label every byte of it already        *)
(* carries succeeds and leaves every region tag of the file as it was.      *)
C2_SameTagIdempotent ==
    /\ (IsRead /\ last.off + last.n <= FileLen
            /\ \A j \in Covered : PrevTag(j) = last.tag) =>
          /\ last.kind = "Ok"
          /\ panic = ""
          /\ regions = prev.regions
    /\ (IsResolve /\ last.off + last.n <= FileLen
            /\ \A j \in Covered : PrevTag(j) = "Text") =>
          /\ last.kind = "Ok"
          /\ panic = ""
          /\ regions = prev.regions

(* A two-byte range tagged by an earlier read is read again, same tag.      *)
C2_Witness ==
    /\ IsRead
    /\ last.n >= 2
    /\ last.off + last.n <= FileLen
    /\ \A j \in Covered : PrevTag(j) = last.tag
    /\ last.kind = "Ok"

(* C6: get_string(0, n) returns the "no string" sentinel as a success value *)
(* for every n and every blob, reads no byte, and leaves every region tag   *)
(* and the string-offset map unchanged.                                     *)
C6_OffsetZero ==
    (last.op = "get_string" /\ last.off = 0) =>
        /\ last.kind = "Ok"
        /\ last.val = NoString
        /\ panic = ""
        /\ regions = prev.regions
        /\ string_offsets = prev.string_offsets
        /\ ~last.called

(* get_string(0, n) with n > 0 on a blob whose byte 0 a cursor read tagged  *)
(* and whose byte 0 is not a terminator.                                    *)
C6_Witness ==
    /\ last.op = "get_string"
    /\ last.off = 0
    /\ last.n > 0
    /\ last.kind = "Ok"
    /\ regions[1] = "Header"
    /\ data[1] # 0

EmptySpanCall ==
    /\ last.op = "get_string"
    /\ last.off > 0
    /\ InFile(last.off)
    /\ last.n >= 1
    /\ data[last.off + 1] = 0

(* C7 as stated: for every off > 0 inside the file and every n >= 1, a zero *)
(* byte at off makes get_string(off, n) return the "empty string" sentinel  *)
(* as a success value.                                                      *)
C7_Original == EmptySpanCall => (last.kind = "Ok" /\ last.val = EmptyString)

(* C7 amended: ... provided the byte at off carries no region label other   *)
(* than Empty or Text; when it does the call aborts with the region         *)
(* mismatch and returns nothing.  It never returns an error value or the    *)
(* "no string" sentinel.                                                    *)
C7_EmptySentinel ==
    EmptySpanCall =>
        IF PrevTag(last.off) \in {"Empty", "Text"}
        THEN /\ last.kind = "Ok"
             /\ last.val = EmptyString
             /\ panic = ""
             /\ regions[last.off + 1] = "Text"
        ELSE /\ last.kind = "Panic"
             /\ panic = "Region type mismatch"

(* The sentinel was returned for a terminator that is not the last byte     *)
(* of the span asked for.                                                   *)
C7_Witness ==
    /\ EmptySpanCall
    /\ last.n >= 2
    /\ last.kind = "Ok"
    /\ last.val = EmptyString

SpanCall == last.op = "get_string" /\ last.off > 0 /\ last.off + last.n <= FileLen

SpanResult ==
    /\ last.bytes = ClaimTextBytes(last.off, last.n)
    /\ last.called <=> (last.bytes # <<>>)
    /\ last.i <= last.off + last.n
    /\ \A j \in 0..(FileLen - 1) :
          regions[j + 1] = IF j \in ClaimSpan(last.off, last.n) THEN "Text" ELSE PrevTag(j)

(* C8 as stated: for off > 0 and [off, off + maxLength) inside the file the *)
(* decoder gets exactly the bytes before the first zero of the span (all of *)
(* them when there is none), exactly those bytes and the terminator found   *)
(* are tagged Text, and nothing beyond off + maxLength is read or tagged.   *)
C8_Original == SpanCall => SpanResult

(* C8 amended: ... provided none of those bytes (terminator included)       *)
(* carries a region label other than Empty or Text; when one does, the call *)
(* aborts with the region mismatch, nothing reaches the decoder and no byte *)
(* outside the span changes its tag.                                        *)
C8_ScannedSpan ==
    SpanCall =>
        IF \A j \in ClaimSpan(last.off, last.n) : PrevTag(j) \in {"Empty", "Text"}
        THEN SpanResult /\ last.kind # "Panic"
        ELSE /\ last.kind = "Panic"
             /\ panic = "Region type mismatch"
             /\ ~last.called
             /\ \A j \in 0..(FileLen - 1) :
                   j \notin ClaimSpan(last.off, last.n) => regions[j + 1] = PrevTag(j)

(* A span holding a text byte, then its terminator, then a byte the scan    *)
(* must leave alone.                                                        *)
C8_Witness ==
    /\ SpanCall
    /\ last.kind = "Ok"
    /\ last.n >= 2
    /\ last.bytes = <<65>>
    /\ last.i = last.off + 2
    /\ regions[last.off + 1] = "Text"
    /\ regions[last.off + 2] = "Text"

-----------------------------------------------------------------------------
(* Claims about the codepage decoder (SpecDecode).                          *)

Decoded == last.op = "bytes_to_string"

(* The claim's own pair rule, in arithmetic on the input bytes: the byte at *)
(* 0-based index at and its follower form a pair.                           *)
ClaimPairAt(bytes, at) ==
    /\ at + 1 < Len(bytes)
    /\ bytes[at + 2] \div 64 = 3
    /\ bytes[at + 1] % 2 = 1

ClaimPairCode(bytes, at) == (bytes[at + 2] % 64) * 128 + (bytes[at + 1] \div 2)

TopBits11(byte) == byte \div 64 = 3

(* C9: in codepage mode the scan runs left to right without gaps; an        *)
(* iteration consumes two bytes and looks the 2-byte table up under         *)
(* ((next & 0x3F) << 7) | (current >> 1) exactly when the next byte's top   *)
(* two bits are 11 and the current byte's low bit is 1; every other         *)
(* iteration consumes at most the current byte.                             *)
C9_PairRule ==
    Decoded =>
        /\ \A k \in 1..Len(last.steps) :
              LET s == last.steps[k]
              IN /\ s.at = (IF k = 1 THEN 0 ELSE last.steps[k - 1].next)
                 /\ (s.table = 2) <=> ClaimPairAt(last.bytes, s.at)
                 /\ ClaimPairAt(last.bytes, s.at) =>
                       /\ s.next = s.at + 2
                       /\ s.code = ClaimPairCode(last.bytes, s.at)
                 /\ ~ClaimPairAt(last.bytes, s.at) => s.next <= s.at + 1
        /\ (last.kind = "Ok" /\ last.steps # <<>>) =>
              last.steps[Len(last.steps)].next = Len(last.bytes)
        /\ (last.kind = "Ok" /\ last.steps = <<>>) => last.bytes = <<>>

(* A pair was decoded through the 2-byte table and a single byte through    *)
(* the 1-byte table in one string.                                          *)
C9_Witness ==
    /\ Decoded
    /\ last.kind = "Ok"
    /\ \E k \in 1..Len(last.steps) : last.steps[k].table = 2 /\ last.steps[k].code = 416
    /\ \E k \in 1..Len(last.steps) : last.steps[k].table = 1

(* C10: a byte with top bits 11 that the scan reaches as current byte and   *)
(* that begins no pair ends the decode with an error value: it is the last  *)
(* iteration, no table is looked up for it, and nothing panics.             *)
C10_DanglingIsError ==
    Decoded =>
        \A k \in 1..Len(last.steps) :
            LET s == last.steps[k]
            IN (TopBits11(last.bytes[s.at + 1]) /\ ~ClaimPairAt(last.bytes, s.at)) =>
                  /\ k = Len(last.steps)
                  /\ s.table = 0
                  /\ last.kind = "Err"
                  /\ panic = ""

(* A lone trailing lead byte after a byte that decoded.                     *)
C10_Witness ==
    /\ Decoded
    /\ last.kind = "Err"
    /\ Len(last.steps) >= 2
    /\ last.steps[Len(last.steps)].at = Len(last.bytes) - 1
    /\ TopBits11(last.bytes[Len(last.bytes)])
    /\ last.steps[1].table = 1

-----------------------------------------------------------------------------
(* Claims about iteration (SpecIndex).                                      *)

IterationOver == pc = "finished"

Descending(q) == \A a, c \in 1..Len(q) : a < c => q[a] > q[c]

Ascending(q) == \A a, c \in 1..Len(q) : a < c => q[a] < q[c]

EachKeyOnce(q, m) ==
    /\ {q[a] : a \in 1..Len(q)} = DOMAIN m
    /\ Len(q) = Cardinality(DOMAIN m)

(* C4 as stated: a finished iteration has yielded the keys of the table in  *)
(* descending order, each once.                                             *)
C4_Original == IterationOver => Descending(out) /\ EachKeyOnce(out, lang)

(* C4: iterating an index table yields its entries in ascending order of    *)
(* key, each key exactly once, whatever the order in which the records were *)
(* inserted; the keys yielded so far are ascending at every point of the    *)
(* iteration.                                                               *)
C4_AscendingOnce ==
    /\ pc \in {"iterating", "finished"} => Ascending(out)
    /\ IterationOver => EachKeyOnce(out, lang)

(* A finished iteration over three keys that were inserted largest first.   *)
C4_Witness ==
    /\ IterationOver
    /\ Len(out) >= 3
    /\ Descending(last.steps)


-----------------------------------------------------------------------------
(* Claims about the whole parse (Spec).                                     *)

ParseOk == pc = "done"

ParseEnded == pc \in {"done", "panicked"}

Byte2At(off) == data[off + 1] + 256 * data[off + 2]

(* The keys of the records of the units table as the file has them: after   *)
(* a header of 6 bytes (3 in schema 4), records of 6, 5 or 8 bytes, each    *)
(* starting with its unit id.                                               *)
UnitsRecordIds ==
    LET at == hdr.offsets[4]
        head == IF hdr.schema < 4 THEN 6 ELSE 3
        width == CASE hdr.schema = 2 -> 6 [] hdr.schema = 3 -> 5 [] OTHER -> 8
    IN [j \in 1..Byte2At(at) |-> Byte2At(at + head + width * (j - 1))]

(* The keys of the records of the product table as the file has them: a     *)
(* header of 2 bytes, records of 8 bytes with the id third (schema 2) or of *)
(* 11 bytes with the id first.                                              *)
ProductRecordIds ==
    LET at == hdr.offsets[1]
        width == IF hdr.schema = 2 THEN 8 ELSE 11
        skip == IF hdr.schema = 2 THEN 2 ELSE 0
    IN [j \in 1..data[at + 1] |-> Byte2At(at + 2 + width * (j - 1) + skip)]

HasRepeat(q) == \E a, c \in 1..Len(q) : a # c /\ q[a] = q[c]

(* C3 as stated: a table whose records carry the same key twice is rejected *)
(* with a fatal abort, so a parse that ran to its end had no key twice in   *)
(* its product table or its units table.                                    *)
C3_Original == ParseOk => ~HasRepeat(UnitsRecordIds) /\ ~HasRepeat(ProductRecordIds)

(* The schema-3 file of the scenario: one product with the derivative range *)
(* 0..65535, its mode 0, one menu, one parameter captioned "Speed".         *)
C5_File == V3File(<<1>>, <<7>>)

(* C5 as stated: that file parses successfully, and the parameter of menu 0 *)
(* of mode 0 of the product prints as "Speed".                              *)
C5_Original ==
    (data = C5_File /\ ParseEnded) =>
        /\ ParseOk
        /\ \E i \in 1..Len(out) :
              /\ out[i].table = "param"
              /\ out[i].path = <<1, 0, 0, Sample.param>>
              /\ out[i].text = Speed

-----------------------------------------------------------------------------
(* Claims about the mnemonic key (SpecMnemonic).                            *)

MnemonicsRead == pc = "mnemonics_read" /\ data[3] = MnemonicEntryLen

MnemonicCount == data[1] + 256 * data[2]

(* The 4 value bytes of the i-th record of the table.                       *)
MnemonicRawAt(i) == SubSeq(data, 10 * i - 6, 10 * i - 3)

(* v for v < 2^31 and v - 2^32 from there on, v the little-endian number of *)
(* the 4 bytes.                                                             *)
TwosComplement(raw) ==
    raw[1] + 256 * raw[2] + 65536 * raw[3]
        + 16777216 * (IF raw[4] < 128 THEN raw[4] ELSE raw[4] - 256)

(* C11 as stated: the key of every record is the two's-complement reading   *)
(* of its 4 value bytes, so a table is refused for a repeated key only when *)
(* two records carry the same bytes, and no value makes the conversion      *)
(* overflow.                                                                *)
C11_Original ==
    /\ panic # "attempt to negate with overflow"
    /\ MnemonicsRead =>
          \A i \in 1..MnemonicCount : TwosComplement(MnemonicRawAt(i)) \in DOMAIN lang
    /\ panic = "Two entries with same mnemonic!" =>
          \E i, j \in 1..MnemonicCount : i # j /\ MnemonicRawAt(i) = MnemonicRawAt(j)

(* A record with the value bytes raw has been read in under key.            *)
KeyVector(raw, key) ==
    \A i \in 1..MnemonicCount :
        MnemonicRawAt(i) = raw =>
            /\ key \in DOMAIN lang
            /\ lang[key].value = key
            /\ lang[key].caption_off \in MnemonicCaptions
            /\ MnemonicCount = 1 => DOMAIN lang = {key}

(* C12: the raw value 0xFFFFFFFE is read in under the key -1 and the raw    *)
(* value 5 under the key 5.                                                 *)
C12_KeyVectors ==
    MnemonicsRead =>
        /\ KeyVector(<<254, 255, 255, 255>>, -1)
        /\ KeyVector(<<5, 0, 0, 0>>, 5)

(* A table of the two records 0xFFFFFFFE and 5, read in.                    *)
C12_Witness ==
    /\ MnemonicsRead
    /\ MnemonicCount = 2
    /\ {MnemonicRawAt(1), MnemonicRawAt(2)} = {<<254, 255, 255, 255>>, <<5, 0, 0, 0>>}
    /\ DOMAIN lang = {-1, 5}

-----------------------------------------------------------------------------
(* Claims about the schema-3 menu and parameter tables (SpecMenu).          *)

(* The one menu of the table: the last slot, numbered from 0.               *)
MenuKey == data[1] - 1

ParamTableAt == 2 + 3 * data[1]

ParamCount == data[ParamTableAt + 1] + 256 * data[ParamTableAt + 2]

ParamWidth == data[ParamTableAt + 6]

ParamRecAt(i) == ParamTableAt + 6 + 5 * (i - 1)

ParamRecKey(i) == data[ParamRecAt(i) + 1] + 256 * data[ParamRecAt(i) + 2]

ParamRecOffset(i) ==
    data[ParamRecAt(i) + 3] + 256 * data[ParamRecAt(i) + 4] + 65536 * data[ParamRecAt(i) + 5]

DistinctParamKeys ==
    \A i, j \in 1..ParamCount : i # j => ParamRecKey(i) # ParamRecKey(j)

MenusRead == pc = "menus_read" /\ ParamWidth = 5

-----------------------------------------------------------------------------
(* SpecStrings: RawBlob::get_string called at any offsets of a frozen blob  *)
(* one byte longer than SpecBlob's, so that a text of two bytes can occur   *)
(* at two offsets.                                                          *)

InitStrings ==
    /\ data \in [1..(BlobLen + 1) -> BlobBytes]
    /\ overflow_checks \in BOOLEAN
    /\ is_utf8 = FALSE
    /\ regions = [i \in 1..(BlobLen + 1) |-> "Empty"]
    /\ string_offsets = NoMap
    /\ pos = 0
    /\ panic = ""
    /\ pc = "blob"
    /\ hdr = <<>>
    /\ lang = <<>>
    /\ out = <<>>
    /\ last = NoLast
    /\ prev = NoPrev

NextStrings ==
    \E off \in 0..FileLen, n \in 0..MaxStrLen :
        last.seq < MaxOps - 1 /\ BlobGetString(off, n)

SpecStrings == InitStrings /\ [][NextStrings]_vars

-----------------------------------------------------------------------------
(* Duplicate-string diagnostics                                             *)

(* The key the resolved text is recorded under: "" for the empty string.    *)
TextKey == IF ClaimTextBytes(last.off, last.n) = <<>> THEN <<>> ELSE last.val

(* The bytes the later occurrence counts for: its text bytes, the           *)
(* terminator not counted; an empty occurrence counts as one byte.          *)
OccurrenceSize ==
    IF ClaimTextBytes(last.off, last.n) = <<>> THEN 1
    ELSE Len(ClaimTextBytes(last.off, last.n))

(* A successful resolution of a text already recorded at another offset.    *)
DuplicateCall ==
    /\ last.op = "get_string"
    /\ last.off > 0
    /\ last.kind = "Ok"
    /\ TextKey \in DOMAIN prev.string_offsets
    /\ prev.string_offsets[TextKey][1] # last.off

(* C14: when two different offsets decode to the identical text, resolving  *)
(* the second offset increases that text's duplicate counter by the byte    *)
(* size of the later occurrence, the offset recorded for the text stays the *)
(* first one, every other text's record is untouched, and both offsets      *)
(* still resolve to the same text afterwards.                               *)
C14_DuplicateCounted ==
    DuplicateCall =>
        /\ panic = ""
        /\ DOMAIN string_offsets = DOMAIN prev.string_offsets
        /\ string_offsets[TextKey] =
              <<prev.string_offsets[TextKey][1],
                prev.string_offsets[TextKey][2] + OccurrenceSize>>
        /\ \A t \in DOMAIN string_offsets \ {TextKey} :
              string_offsets[t] = prev.string_offsets[t]
        /\ \E r \in {get_string(BlobState, last.off, last.n)} :
              r.kind = "Ok" /\ r.val = last.val
        /\ \E k \in 0..MaxStrLen :
              \E r \in {get_string(BlobState, string_offsets[TextKey][1], k)} :
                  r.kind = "Ok" /\ r.val = last.val

(* A text of two bytes, recorded at one offset, was resolved at another.    *)
C14_Witness ==
    /\ DuplicateCall
    /\ Len(ClaimTextBytes(last.off, last.n)) = 2
    /\ string_offsets[TextKey][2] = 2
    /\ string_offsets[TextKey][1] < last.off

-----------------------------------------------------------------------------
(* Records whose offset field is 0                                          *)

(* The caption offset of the i-th record of the mnemonic table.             *)
MnemonicCaptionAt(i) == data[10 * i - 2] + 256 * data[10 * i - 1] + 65536 * data[10 * i]

(* C15 as stated, for the Mnemonics reader: a table holding a record whose  *)
(* offset field is 0 makes the reader abort, so no table is built from it   *)
(* and no entry with caption offset 0 is stored.                            *)
C15_Original ==
    /\ (pc # "mnemonics" /\ data[3] = MnemonicEntryLen
            /\ \E i \in 1..MnemonicCount : MnemonicCaptionAt(i) = 0) => pc = "panicked"
    /\ \A k \in DOMAIN lang : lang[k].caption_off # 0

(* C16 as stated, for the schema-3 parameter reader: a record whose offset  *)
(* is 0 is skipped, so no parameter of the menu read has caption offset 0.  *)
C16_Original ==
    MenusRead =>
        \A k \in DOMAIN lang :
            \A p \in DOMAIN lang[k].param_index : lang[k].param_index[p].caption_off # 0

-----------------------------------------------------------------------------
(* Record widths                                                            *)

(* C17 as stated, for the Mnemonics reader: a table header whose record     *)
(* width is not the expected constant is refused, also when it declares     *)
(* entries.                                                                 *)
C17_Original ==
    (pc # "mnemonics" /\ data[3] # MnemonicEntryLen /\ MnemonicCount >= 1) =>
        (pc = "panicked" /\ lang = EmptyIndex)

-----------------------------------------------------------------------------
(* Claims about the file header (Spec)                                      *)

(* The schema field of the common header.                                   *)
SchemaField == Byte2At(8)

(* Where the offset-width field is: after the font family below schema 4.   *)
WidthAt == IF SchemaField < 4 THEN CommonHdrLen + 2 ELSE CommonHdrLen

WidthField == Byte2At(WidthAt)

BadFormat ==
    /\ Len(data) >= WidthAt + 2
    /\ \/ SchemaField \notin {2, 3, 4}
       \/ SchemaField = 2 /\ WidthField # 4
       \/ SchemaField \in {3, 4} /\ WidthField # 3

(* C18: a file whose schema field is not 2, 3 or 4, or whose offset-width   *)
(* field is not 4 for schema 2 or not 3 for schema 3 and 4, never gets past *)
(* the header stage: its run ends in a fatal abort, no offset is taken from *)
(* the offset table, no byte after the offset-width field is read, no       *)
(* index table is built and nothing is printed.                             *)
C18_BadFormatRejected ==
    BadFormat =>
        /\ pc \in {"start", "load", "header", "panicked"}
        /\ hdr.offsets = <<0, 0, 0, 0>>
        /\ lang = NoLang
        /\ out = <<>>
        /\ \A j \in 1..Len(regions) :
              /\ regions[j] \in {"Empty", "Header"}
              /\ j > WidthAt + 2 => regions[j] = "Empty"
        /\ (pc = "panicked" /\ regions # <<>> /\ regions[WidthAt + 2] = "Header") =>
              panic = "Invalid format"

(* A file of schema 2, 3 or 4 with the wrong offset width was refused after *)
(* the width had been read.                                                 *)
C18_Witness ==
    /\ BadFormat
    /\ SchemaField \in {2, 3, 4}
    /\ pc = "panicked"
    /\ panic = "Invalid format"
    /\ regions[WidthAt + 2] = "Header"
    /\ regions[WidthAt + 3] = "Empty"

(* C19 as stated: the schema is validated before the file is loaded and its *)
(* length checked, so a file with an unsupported schema is refused as an    *)
(* invalid format whatever its length.                                      *)
C19_Original ==
    (Len(data) >= WidthAt + 2 /\ SchemaField \notin {2, 3, 4} /\ pc = "panicked") =>
        panic = "Invalid format"

(* The keypad-strings slot of the offset table as the file has it: the      *)
(* third slot of 4 bytes (schema 2) or of 3 bytes (schema 3); schema 4 has  *)
(* no such slot.                                                            *)
KeypadSlotIsZero ==
    /\ Len(data) >= WidthAt + 2 + 12
    /\ ~BadFormat
    /\ CASE SchemaField = 2 ->
              \A j \in 1..4 : data[WidthAt + 2 + 8 + j] = 0
         [] SchemaField = 3 ->
              \A j \in 1..3 : data[WidthAt + 2 + 6 + j] = 0
         [] OTHER -> TRUE

(* The run has left the enumerations stage behind it.                       *)
PastEnumerations ==
    \/ pc \in {"keypad_strs", "units", "dump_products", "dump_enumerations",
                "dump_keypad_strs", "dump_units", "done"}
    \/ pc = "panicked" /\ lang.enumeration_index # EmptyIndex

PastKeypadStrs ==
    pc \in {"units", "dump_products", "dump_enumerations", "dump_keypad_strs",
            "dump_units", "done"}

MissingKeypad == "Missing Keypad strings in V2 language file"

(* What holds of every state of a run on a file with a zero slot.           *)
ZeroKeypadState ==
    /\ hdr.schema = 4 => hdr.offsets[3] = 0
    /\ (KeypadSlotIsZero /\ PastEnumerations) => hdr.offsets[3] = 0
    /\ (KeypadSlotIsZero /\ SchemaField = 2) =>
          /\ ~PastKeypadStrs
          /\ (pc = "panicked" /\ PastEnumerations) => panic = MissingKeypad
    /\ (KeypadSlotIsZero /\ SchemaField \in {3, 4}) =>
          /\ panic # MissingKeypad
          /\ lang.keypad_str_index = EmptyIndex
          /\ \A j \in 1..Len(regions) : regions[j] # "KeypadStrs"

(* The step taken at the keypad stage on a file with a zero slot.           *)
ZeroKeypadStep ==
    (pc = "keypad_strs" /\ KeypadSlotIsZero) =>
        IF SchemaField = 2
        THEN pc' = "panicked" /\ panic' = MissingKeypad
        ELSE pc' = "units" /\ panic' = "" /\ regions' = regions

(* C20: a zero keypad-strings offset is fatal only under schema 2: there    *)
(* the parse aborts at the keypad stage; under schema 3 or 4 the keypad     *)
(* table is empty, no byte is read for it and the parse goes on to the      *)
(* units table; under schema 4 the keypad-strings offset is 0 whatever the  *)
(* header bytes are.                                                        *)
C20_ZeroKeypadOffset == []ZeroKeypadState /\ [][ZeroKeypadStep]_vars

(* A schema-2 file with a zero keypad-strings offset was refused after its  *)
(* products and enumerations had been read.                                 *)
C20_Witness ==
    /\ KeypadSlotIsZero
    /\ SchemaField = 2
    /\ pc = "panicked"
    /\ panic = MissingKeypad
    /\ lang.product_index # EmptyIndex
    /\ lang.enumeration_index # EmptyIndex

-----------------------------------------------------------------------------
(* Termination.  read_language_file runs Language::from and the dump in one *)
(* thread from start to end, so every stage that can run does run: weak     *)
(* fairness of Next.  A stage is enabled exactly in the states of a run     *)
(* that has not ended (each stage is guarded by its pc alone and always     *)
(* yields a next state with another pc), so WF_vars(Next) is written with   *)
(* ENABLED <<Next>>_vars replaced by ~ParseEnded.                           *)

Fair == []<>ParseEnded \/ []<><<Next>>_vars

(* The well-formed files and every base file with one byte, its offsets     *)
(* among them, set to 0 (the common header) or to 52 (the product table of  *)
(* schema 2 and 3, a product record of schema 4).                           *)
BackwardFiles ==
    {VFile(sc, ProductIds(n, r), uids) :
        sc \in Schemas, n \in ProductCounts, r \in BOOLEAN, uids \in UnitIdLists}
    \cup UNION {{Patch(BaseFile(sc), off, v) : off \in 0..(Len(BaseFile(sc)) - 1), v \in {0, 52}} :
                   sc \in Schemas}

InitLive ==
    /\ data \in BackwardFiles
    /\ overflow_checks \in BOOLEAN
    /\ is_utf8 = FALSE
    /\ regions = <<>>
    /\ string_offsets = NoMap
    /\ pos = 0
    /\ panic = ""
    /\ pc = "start"
    /\ hdr = NoHdr
    /\ lang = NoLang
    /\ out = <<>>
    /\ last = NoLast
    /\ prev = NoPrev

SpecLive == InitLive /\ [][Next]_vars /\ Fair

(* C21: for every input file the parse ends, with the document built and    *)
(* printed or with a fatal abort, also when a child-table offset points     *)
(* backwards, at the table holding it or at a table already read.           *)
C21_Terminates == <>ParseEnded

(* The offset to the modes in the first product record of a schema-3 file.  *)
FirstModesOffset ==
    data[hdr.offsets[1] + 2 + 8 + 1] + 256 * data[hdr.offsets[1] + 2 + 8 + 2]
        + 65536 * data[hdr.offsets[1] + 2 + 8 + 3]

(* A schema-3 file whose first product points at the product table itself  *)
(* for its modes; its parse ended in an abort.                              *)
C21_Witness ==
    /\ ParseEnded
    /\ hdr.schema = 3
    /\ hdr.offsets[1] > 0
    /\ Len(data) >= hdr.offsets[1] + 13
    /\ FirstModesOffset = hdr.offsets[1]
    /\ lang.product_index = EmptyIndex
    /\ panic = "Region type mismatch"

-----------------------------------------------------------------------------
(* SpecProduct: ProductIndex::read_v3_entries as a function of the record   *)
(* it reads.  data is the 11-byte encoding of one schema-3 product record;  *)
(* lang receives the list of tuples read.                                   *)

ProductFieldValues == {0, 1, 256, 65535}

ProductOffsetValues == {0, 1, 65538, 16777215}

ProductRecords ==
    [product_id : ProductFieldValues, derivative_id_low : {0, 258},
     derivative_id_high : {513, 65535}, flags : {0, 15, 65535},
     offset_to_modes : ProductOffsetValues]

(* The record as the language file holds it.                                *)
ProductRecordBytes(rec) ==
    LE2(rec.product_id) \o LE2(rec.derivative_id_low) \o LE2(rec.derivative_id_high)
        \o LE2(rec.flags) \o LE3(rec.offset_to_modes)

InitProduct ==
    /\ data \in {ProductRecordBytes(rec) : rec \in ProductRecords}
    /\ overflow_checks \in BOOLEAN
    /\ is_utf8 = FALSE
    /\ regions = [i \in 1..Len(data) |-> "Empty"]
    /\ string_offsets = NoMap
    /\ pos = 0
    /\ panic = ""
    /\ pc = "record"
    /\ hdr = NoHdr
    /\ lang = <<>>
    /\ out = <<>>
    /\ last = NoLast
    /\ prev = NoPrev

(* products.rs 79: read_v3_entries for one record at the cursor.            *)
ReadProductRecord ==
    /\ pc = "record"
    /\ \E r \in {ProductReadV3(BlobState, 1, <<>>)} :
          /\ After(r.b, "record_read")
          /\ lang' = r.tmp_info
    /\ UNCHANGED <<data, overflow_checks, is_utf8, hdr, out, last, prev>>

NextProduct == ReadProductRecord

SpecProduct == InitProduct /\ [][NextProduct]_vars

(* C22: reading the 11-byte little-endian encoding of a schema-3 product    *)
(* record yields the record's five values unchanged and advances the cursor *)
(* by 11 bytes, all of them labelled Products.                              *)
C22_RecordRoundTrip ==
    pc # "record" =>
        /\ pc = "record_read"
        /\ pos = 11
        /\ \A i \in 1..11 : regions[i] = "Products"
        /\ \A rec \in ProductRecords :
              data = ProductRecordBytes(rec) =>
                  lang = << <<rec.product_id, rec.derivative_id_low, rec.derivative_id_high,
                              rec.flags, rec.offset_to_modes>> >>

(* The record with the largest id, flags and offset has been read back.     *)
C22_Witness ==
    /\ pc = "record_read"
    /\ lang = << <<65535, 258, 65535, 65535, 16777215>> >>

-----------------------------------------------------------------------------
(* Strings at the end of the file (SpecBlob)                                *)

(* A resolution whose span runs past the end of the file with no zero byte  *)
(* between off and the end.                                                 *)
PastEndCall ==
    /\ last.op = "get_string"
    /\ last.off > 0
    /\ last.off + last.n > FileLen
    /\ \A j \in last.off..(FileLen - 1) : data[j + 1] # 0

(* C23: get_string with off > 0 whose span runs past the end of the file    *)
(* and holds no zero byte before the end aborts with an out-of-bounds       *)
(* access; it returns nothing, tags no byte and records no string.          *)
C23_PastEndAborts ==
    PastEndCall =>
        /\ last.kind = "Panic"
        /\ last.val = <<>>
        /\ panic = "index out of bounds"
        /\ regions = prev.regions
        /\ string_offsets = prev.string_offsets

(* The span started inside the file on untagged text bytes.                 *)
C23_Witness ==
    /\ PastEndCall
    /\ last.off < FileLen
    /\ PrevTag(last.off) = "Empty"
    /\ panic = "index out of bounds"

-----------------------------------------------------------------------------
(* Region tags over the whole run (Spec)                                    *)

(* A step leaves every tag that is not Empty as it is.                      *)
TagsKept ==
    \A j \in 1..Len(regions) :
        regions[j] # "Empty" => (Len(regions') = Len(regions) /\ regions'[j] = regions[j])

(* C24: over the whole run, the parse and the string resolutions of the     *)
(* dump, a byte whose tag is not Empty keeps that tag in every later state, *)
(* and every byte carries one region label.                                 *)
C24_TagsMonotonic ==
    /\ [](\A j \in 1..Len(regions) : regions[j] \in BlobRegions \ {"Invalid"})
    /\ [][TagsKept]_vars

(* A later reader ran into the product table and the run was aborted; the   *)
(* table's first byte still carries its label.                              *)
C24_Witness ==
    /\ pc = "panicked"
    /\ panic = "Region type mismatch"
    /\ lang.product_index # EmptyIndex
    /\ regions[hdr.offsets[1] + 1] = "Products"

-----------------------------------------------------------------------------
(* Labels of the schema-4 parameter table (Spec)                            *)

Byte3At(off) == data[off + 1] + 256 * data[off + 2] + 65536 * data[off + 3]

(* Where the well-formed schema-4 file has the parameter table of its one   *)
(* menu: offset table -> first product record -> mode record -> menu record *)
(* -> parameter table.                                                      *)
V4ParamTableAt ==
    Byte3At(Byte3At(Byte3At(Byte3At(CommonHdrLen + 2) + 2 + 8) + 2) + 2 + 6)

(* C25 as stated, for the schema-4 parameter reader: after a successful     *)
(* parse every byte of the parameter table, its 2 header bytes and the 10   *)
(* bytes of its one record, is labelled Parameters.                         *)
C25_Original ==
    (data = BaseFile(4) /\ ParseOk) =>
        \A j \in V4ParamTableAt..(V4ParamTableAt + 11) : regions[j + 1] = "Parameters"

-----------------------------------------------------------------------------
(* Record width of the mnemonic table (SpecMnemonic)                        *)

(* C26 as stated, for the mnemonic reader: after the table is read the      *)
(* cursor stands at the end of its 3-byte header plus the entry count times *)
(* the record width the header declares.                                    *)
C26_Original ==
    MnemonicsRead => pos = 3 + MnemonicCount * data[3]

-----------------------------------------------------------------------------
(* Resolving an offset twice (SpecStrings)                                  *)

(* C27 as stated: in every state, resolving any offset a second time with   *)
(* the same maximum length returns what the first resolution returned and   *)
(* leaves the region tags and the string records as the first left them.    *)
C27_Original ==
    panic = "" =>
        \A off \in 1..FileLen, n \in 0..MaxStrLen :
            \A r1 \in {get_string(BlobState, off, n)} :
                \A r2 \in {get_string(r1.b, off, n)} :
                    r1.kind = "Ok" =>
                        /\ r2.kind = "Ok"
                        /\ r2.val = r1.val
                        /\ r2.b.regions = r1.b.regions
                        /\ r2.b.string_offsets = r1.b.string_offsets

(* C28: a schema-4 caption longer than the 16 bytes of the units' to_string *)
(* and no longer than 256 is printed in full: the unit 3 of LongCaptionFile *)
(* is dumped with all the bytes of its caption.                             *)
C28_Original ==
    (data = LongCaptionFile /\ ParseOk) =>
        \E i \in 1..Len(out) :
            /\ out[i].table = "unit"
            /\ out[i].path = <<3>>
            /\ out[i].text = LongCaption

-----------------------------------------------------------------------------
(* SpecModes: ModeIndex::create_from_file on a mode table at offset 0, and  *)
(* the loop that prints the modes.  The table declares as many records as   *)
(* it holds, from none to one more than MaxModes; a record is a mode number *)
(* (schema 2 only) and an offset, zero or that of a menu table without      *)
(* entries laid out behind the records.                                     *)

ModeWidths == {3, 5}

(* shift: what a schema-2 record's mode number is above its position        *)
(* counted from 0.  empty: whether its offset is zero.                      *)
ModeRecords == [shift : {0, 1, 2}, empty : BOOLEAN]

(* A menu table without entries: a parameter table header for schema 2, a   *)
(* menu table header for schemas 3 and 4.                                   *)
NoMenusTable(schema) ==
    CASE schema = 2 -> LE2(0) \o LE2(32) \o <<Sample.font, 6>>
      [] schema = 3 -> <<0, 3>>
      [] OTHER -> <<0, 9>>

ModeTable(schema, width, recs) ==
    LET n == Len(recs)
        M == 2 + n * (IF schema = 2 THEN 5 ELSE 3)
        off(i) == IF recs[i].empty THEN 0 ELSE M
    IN <<n, width>>
       \o Flatten([i \in 1..n |->
             IF schema = 2 THEN <<i - 1 + recs[i].shift>> \o LE4(off(i)) ELSE LE3(off(i))])
       \o NoMenusTable(schema)

InitModes ==
    /\ \E sc \in Schemas, w \in ModeWidths, recs \in SeqsUpTo(ModeRecords, MaxModes + 1) :
          /\ data = ModeTable(sc, w, recs)
          /\ hdr = [NoHdr EXCEPT !.schema = sc, !.font_family = Sample.font]
    /\ overflow_checks \in BOOLEAN
    /\ is_utf8 = FALSE
    /\ regions = [i \in 1..Len(data) |-> "Empty"]
    /\ string_offsets = NoMap
    /\ pos = 0
    /\ panic = ""
    /\ pc = "modes"
    /\ lang = EmptyIndex
    /\ out = <<>>
    /\ last = NoLast
    /\ prev = NoPrev

(* products.rs 85-90: ModeIndex::from at the cursor.                        *)
ReadModes ==
    /\ pc = "modes"
    /\ \E r \in {ModeIndex_create_from_file(BlobState, hdr.schema, hdr.font_family)} :
          /\ After(r.b, "modes_read")
          /\ lang' = r.idx
    /\ UNCHANGED <<data, overflow_checks, is_utf8, hdr, out, last, prev>>

(* language.rs 109-113: the loop over the modes of a product.               *)
PrintModes ==
    /\ pc = "modes_read"
    /\ \E r \in {DumpModes(BlobState, out, IterOrder(lang), lang, <<>>)} :
          /\ After(r.b, "modes_printed")
          /\ out' = r.lines
    /\ UNCHANGED <<data, overflow_checks, is_utf8, hdr, lang, last, prev>>

NextModes == ReadModes \/ PrintModes

SpecModes == InitModes /\ [][NextModes]_vars

(* The number of records the table declares, from its first byte.           *)
ModeCount == data[1]

ModesBuilt == pc \in {"modes_read", "modes_printed"}

(* C29: every key of a mode table that was built is in 0..4: the table      *)
(* declares 1 to 4 records, key 0 occurs only when it declares one, and the *)
(* keys of a table of several records are positions counted from 1; the     *)
(* loop over the modes prints one line per key and never aborts with        *)
(* "Unknown mode".                                                          *)
C29_ModeKeysKnown ==
    /\ panic # "Unknown mode"
    /\ ModesBuilt =>
          /\ ModeCount \in 1..4
          /\ \A k \in DOMAIN lang : k \in 0..4
          /\ 0 \in DOMAIN lang => ModeCount = 1
          /\ ModeCount > 1 => \A k \in DOMAIN lang : k \in 1..ModeCount
    /\ pc = "modes_printed" =>
          /\ Len(out) = Cardinality(DOMAIN lang)
          /\ \A k \in DOMAIN lang : \E i \in 1..Len(out) : out[i].path = <<k>>

(* A table of four modes was built and printed, the last as "Regen".        *)
C29_Witness ==
    /\ pc = "modes_printed"
    /\ DOMAIN lang = 1..4
    /\ \E i \in 1..Len(out) : out[i].path = <<4>> /\ out[i].label = "Regen"

-----------------------------------------------------------------------------
(* The common header in the coverage diagnostics (Spec)                     *)

(* The bytes the header stage reads behind the common header, from the      *)
(* schema field: font family and offset width (the width alone for schema   *)
(* 4), then four offsets of the schema's width (three for schema 4).        *)
HeaderStageLen == CASE SchemaField = 2 -> 20 [] SchemaField = 3 -> 16 [] OTHER -> 11

HeaderStageDone == pc = "products"

CommonHeaderBytes == {j \in 0..(CommonHdrLen - 1) : j < Len(regions)}

(* C30: no stage tags a byte of the common header as Header; when the       *)
(* header stage has ended, bytes 0..31 are Empty, the bytes tagged Header   *)
(* are those from byte 32 to the end of the offset table, and all the       *)
(* others, the 32 of the common header among them, make up the unused       *)
(* count.                                                                   *)
C30_CommonHeaderUntagged ==
    /\ \A j \in CommonHeaderBytes : regions[j + 1] # "Header"
    /\ HeaderStageDone =>
          /\ \A j \in CommonHeaderBytes : regions[j + 1] = "Empty"
          /\ {j \in 0..(Len(regions) - 1) : regions[j + 1] = "Header"}
                = CommonHdrLen..(CommonHdrLen + HeaderStageLen - 1)
          /\ Unused(regions) = Len(data) - HeaderStageLen

(* A file was read to the end and its common header is still Empty: its 32  *)
(* bytes are in the unused count.                                           *)
C30_Witness ==
    /\ ParseOk
    /\ Len(regions) = Len(data)
    /\ \A j \in 0..(CommonHdrLen - 1) : regions[j + 1] = "Empty"
    /\ Unused(regions) >= CommonHdrLen
    /\ \E j \in CommonHdrLen..(Len(regions) - 1) : regions[j + 1] = "Header"

=============================================================================
